---- MODULE Spec2Model ----
(***************************************************************************)
(* Model of the document-segmentation engine of api-doc-mcp                *)
(* (src/src/scraper.ts): buildSectionTree turns a flat sequence of block   *)
(* elements into a forest of sections, sectionsToChunks flattens a forest  *)
(* into token-budgeted chunks, generateSummary and extractSections derive  *)
(* the metadata of a document from its chunks, scrapeDocs stores both, and *)
(* initializeDocs (src/src/main.ts) decides at startup whether to scrape.  *)
(* The last part models the service: generateEmbeddings                    *)
(* (src/src/embeddings.ts), the operations of VectorDB                     *)
(* (src/src/vectordb.ts), POST /refresh-docs (src/src/main.ts) and         *)
(* get_chunks (src/src/tools.ts) as requests that interleave at awaits.    *)
(*                                                                         *)
(* Strings are kept run-length encoded: a string is a sequence of runs     *)
(* [c |-> character, n |-> repetitions] in which neighbouring runs have    *)
(* different characters.  "nl" is the newline, "sp" any other whitespace   *)
(* character, every other c is a letter.  Length, trim, concatenation and  *)
(* the split on /\n\n+/ are exact on this encoding, so the thresholds keep *)
(* the values of the source (100, 600, 1000 tokens of 4 characters).       *)
(***************************************************************************)
EXTENDS Integers, Sequences, FiniteSets, TLC

VARIABLES
    elements,       \* parseHtmlToSections: const elements (headers and content elements)
    calls,          \* call stack of buildSectionTree, one frame per invocation
    nodes,          \* heap of ParsedSection objects: [level, heading, content, children]
    roots,          \* the forest: sequence of node ids (the `sections` argument)
    chunks,         \* sectionsToChunks: const chunks: DocChunk[]
    chunkIndex,     \* sectionsToChunks: let chunkIndex
    stack,          \* call stack of processSection: frames [section, path, todo]
    pc,             \* position of the chunker: "walk", "split" or "done"
    paragraphs,     \* paragraphs of the over-MAX section not yet read by the for loop
    buffer,         \* processSection: let buffer
    bufferTokens,   \* processSection: let bufferTokens
    forceRefresh,   \* initializeDocs: const forceRefresh
    step,           \* position of initializeDocs / scrapeDocs ("off": neither is running)
    pages,          \* scrapeDocs: const scrapedPages, each page given by its section forest
    pageIndex,      \* scrapeDocs: let i of the loop over scrapedPages
    metadata,       \* scrapeDocs: const metadata of the page being stored
    docMetadata,    \* store: the rows of table doc_metadata (one per id)
    docChunks,      \* store: the rows of table doc_chunks, in insertion order
    returned,       \* the value initializeDocs returned
    logged,         \* the messages written by log.info / log.warning, oldest first
    site,           \* the documentation site: the pages a crawl can fetch, as chunk lists
    requests        \* the operations started on the service, oldest first, each with
                    \* its position and its local variables

treeVars == <<elements, calls>>
forestVars == <<nodes, roots>>
chunkVars == <<chunks, chunkIndex, stack, pc, paragraphs, buffer, bufferTokens>>

serviceVars == <<site, requests>>

scrapeVars == <<forceRefresh, serviceVars, step, pages, pageIndex, metadata, docMetadata, docChunks,
               returned, logged>>

vars == <<treeVars, forestVars, chunkVars, scrapeVars>>

\* ------------------------------------------------------------------ bounds
MaxNodes == 3
MaxElems == 6
MaxLevel == 3
MaxChunks == 3
MaxPages == 3

\* --------------------------------------------------------------- constants
MIN_CHUNK_TOKENS == 100
TARGET_CHUNK_TOKENS == 600
MAX_CHUNK_TOKENS == 1000

\* ----------------------------------------------------------------- strings
Run(c, n) == [c |-> c, n |-> n]

EmptyStr == <<>>

\* the literal '\n\n'
BlankLine == <<Run("nl", 2)>>

IsSpace(c) == c \in {"nl", "sp"}

\* String.prototype.length
RECURSIVE StrLen(_)
StrLen(s) == IF s = <<>> THEN 0 ELSE s[1].n + StrLen(Tail(s))

\* a + b on strings
Concat(s, t) ==
    IF s = <<>> THEN t
    ELSE IF t = <<>> THEN s
    ELSE IF s[Len(s)].c = t[1].c
         THEN SubSeq(s, 1, Len(s) - 1)
              \o <<Run(t[1].c, s[Len(s)].n + t[1].n)>>
              \o Tail(t)
         ELSE s \o t

RECURSIVE trimStart(_)
trimStart(s) ==
    IF s # <<>> /\ IsSpace(s[1].c) THEN trimStart(Tail(s)) ELSE s

RECURSIVE trimEnd(_)
trimEnd(s) ==
    IF s # <<>> /\ IsSpace(s[Len(s)].c) THEN trimEnd(SubSeq(s, 1, Len(s) - 1)) ELSE s

\* String.prototype.trim
trim(s) == trimEnd(trimStart(s))

\* content.split(/\n\n+/): cur is the piece being read, s the rest of the string
RECURSIVE SplitFrom(_, _)
SplitFrom(s, cur) ==
    IF s = <<>> THEN <<cur>>
    ELSE IF s[1].c = "nl" /\ s[1].n >= 2
         THEN <<cur>> \o SplitFrom(Tail(s), <<>>)
         ELSE SplitFrom(Tail(s), cur \o <<s[1]>>)

splitParagraphs(content) == SplitFrom(content, <<>>)

estimateTokens(text) == (StrLen(text) + 3) \div 4

\* ------------------------------------------------------------------ inputs
Last(s) == s[Len(s)]

Ids(n) == [i \in 1..n |-> i]

\* the first and the second letter used by the content of section i
Letter1(i) == <<"a", "b", "c", "d", "e", "f">>[i]
Letter2(i) == <<"p", "q", "r", "s", "t", "u">>[i]

\* the section contents the forests are built from
ContentChoices(i) ==
    << EmptyStr,
       \* 99 tokens between two whitespace characters
       <<Run("sp", 1), Run(Letter1(i), 396), Run("sp", 1)>>,
       \* exactly MAX tokens
       <<Run(Letter1(i), 4000)>>,
       \* 1001 tokens, no paragraph break
       <<Run(Letter1(i), 4004)>>,
       \* paragraphs of 300, 250, 1001, 1 and 700 tokens; the first break is three
       \* newlines long, the fourth paragraph is one whitespace character
       <<Run(Letter1(i), 1200), Run("nl", 3), Run(Letter2(i), 1000), Run("nl", 2),
         Run(Letter1(i), 4004), Run("nl", 2), Run("sp", 1), Run("nl", 2),
         Run(Letter2(i), 2800)>>,
       \* two one-letter paragraphs 4000 newlines apart
       <<Run(Letter1(i), 1), Run("nl", 4000), Run(Letter2(i), 1)>> >>

\* the heading of section i when it has one
HeadingChoice(i) == <<"A", "B", "C", "D", "E", "F">>[i]

\* the sections the forests are built from: section i with its heading and each of
\* the contents, and with an empty heading and the first, second, third and fifth
SectionChoices(i) ==
    LET cc == ContentChoices(i)
    IN  [k \in DOMAIN cc |-> [heading |-> HeadingChoice(i), content |-> cc[k]]]
        \o <<[heading |-> "", content |-> cc[1]],
             [heading |-> "", content |-> cc[2]],
             [heading |-> "", content |-> cc[3]],
             [heading |-> "", content |-> cc[5]]>>

RECURSIVE AncestorsOrSelf(_, _)
AncestorsOrSelf(p, i) == IF i = 0 THEN {0} ELSE {i} \cup AncestorsOrSelf(p, p[i])

\* parent vectors of the forests with n nodes numbered in pre-order
Shapes(n) ==
    { p \in [1..n -> 0..n] :
        \A i \in 1..n : p[i] < i /\ p[i] \in AncestorsOrSelf(p, i - 1) }

RECURSIVE Depth(_, _)
Depth(p, i) == IF i = 0 THEN 0 ELSE 1 + Depth(p, p[i])

\* the children lists of the forest with parent vector p; entry n + 1 holds the roots
ChildLists(n, p) ==
    [i \in 1..(n + 1) |-> SelectSeq(Ids(n), LAMBDA k : p[k] = (IF i > n THEN 0 ELSE i))]

MkNodes(n, p, kids, c) ==
    [i \in 1..n |->
        LET s == SectionChoices(i)[c[i]]
        IN  [level    |-> Depth(p, i),
             heading  |-> s.heading,
             content  |-> s.content,
             children |-> kids[i]]]

\* the forests of at most MaxNodes sections
IsForest(ns, rs) ==
    \E n \in 0..MaxNodes :
        \E p \in Shapes(n) :
            \E kids \in {ChildLists(n, p)} :
                \E c \in [1..n -> DOMAIN SectionChoices(1)] :
                    /\ ns = MkNodes(n, p, kids, c)
                    /\ rs = kids[n + 1]

\* ------------------------------------------------------- sectionsToChunks
Top == stack[Len(stack)]

\* the section the next call of processSection is made on
NextSection == nodes[Head(Top.todo)]

\* mutant of currentPath: an empty heading extends the path too
currentPathAlwaysExtends(section, path) == Append(path, section.heading)

\* const currentPath = section.heading ? [...path, section.heading] : path
currentPath(section, path) ==
    IF section.heading # "" THEN Append(path, section.heading) ELSE path

\* section.heading || currentPath[currentPath.length - 1] || 'Content'
chunkHeading(section, cp) ==
    IF section.heading # "" THEN section.heading
    ELSE IF cp # <<>> /\ Last(cp) # "" THEN Last(cp)
    ELSE "Content"

\* section.heading || 'Introduction'
firstChunkHeading(section) ==
    IF section.heading # "" THEN section.heading ELSE "Introduction"

\* the object literal of chunks.push; origin is the id of the emitting section
\* (it stands for the chunk's identity and is read by no operation)
DocChunk(origin, cp, heading, content, tokens, index) ==
    [origin       |-> origin,
     section_path |-> cp,
     heading      |-> heading,
     content      |-> content,
     token_count  |-> tokens,
     chunk_index  |-> index]

\* mutant of mergeIntoLast: the text is merged into the first chunk of the list
mergeIntoFirst(cs, text, tokens) ==
    [cs EXCEPT ![1] =
        [@ EXCEPT !.content = Concat(Concat(@, BlankLine), text),
                  !.token_count = @ + tokens]]

\* mutant of mergeIntoLast: the merged text replaces the content of the last chunk
mergeIntoLastReplacing(cs, text, tokens) ==
    [cs EXCEPT ![Len(cs)] =
        [@ EXCEPT !.content = text,
                  !.token_count = @ + tokens]]

\* lastChunk.content += '\n\n' + text; lastChunk.token_count += tokens
mergeIntoLast(cs, text, tokens) ==
    [cs EXCEPT ![Len(cs)] =
        [@ EXCEPT !.content = Concat(Concat(@, BlankLine), text),
                  !.token_count = @ + tokens]]

\* processSection(child, currentPath) is called by the loop of the top frame
Call(id) ==
    LET cp == currentPath(nodes[id], Top.path)
    IN  Append([stack EXCEPT ![Len(stack)].todo = Tail(@)],
               [section |-> id, path |-> cp, todo |-> nodes[id].children])

CanCall == pc = "walk" /\ Top.todo # <<>>

\* if (content) is false
ProcessEmpty ==
    /\ CanCall
    /\ trim(NextSection.content) = EmptyStr
    /\ stack' = Call(Head(Top.todo))
    /\ UNCHANGED <<treeVars, scrapeVars, nodes, roots, chunks, chunkIndex, pc, paragraphs, buffer, bufferTokens>>

\* tokens > MAX_CHUNK_TOKENS: split by paragraphs
ProcessSplit ==
    /\ CanCall
    /\ LET content == trim(NextSection.content)
       IN  /\ content # EmptyStr
           /\ estimateTokens(content) > MAX_CHUNK_TOKENS
           /\ paragraphs' = splitParagraphs(content)
    /\ buffer' = EmptyStr
    /\ bufferTokens' = 0
    /\ pc' = "split"
    /\ stack' = Call(Head(Top.todo))
    /\ UNCHANGED <<treeVars, scrapeVars, nodes, roots, chunks, chunkIndex>>

\* tokens >= MIN_CHUNK_TOKENS: content is appropriate size
ProcessEmit ==
    /\ CanCall
    /\ LET id      == Head(Top.todo)
           content == trim(NextSection.content)
           tokens  == estimateTokens(content)
           cp      == currentPath(NextSection, Top.path)
       IN  /\ content # EmptyStr
           /\ ~(tokens > MAX_CHUNK_TOKENS)
           /\ tokens >= MIN_CHUNK_TOKENS
           /\ chunks' = Append(chunks,
                  DocChunk(id, cp, chunkHeading(NextSection, cp), content, tokens, chunkIndex))
    /\ chunkIndex' = chunkIndex + 1
    /\ stack' = Call(Head(Top.todo))
    /\ UNCHANGED <<treeVars, scrapeVars, nodes, roots, pc, paragraphs, buffer, bufferTokens>>

\* mutant of ProcessMerge: the merge consumes an index
ProcessMergeAdvancing ==
    /\ CanCall
    /\ LET content == trim(NextSection.content)
           tokens  == estimateTokens(content)
       IN  /\ content # EmptyStr
           /\ ~(tokens > MAX_CHUNK_TOKENS)
           /\ ~(tokens >= MIN_CHUNK_TOKENS)
           /\ Len(chunks) > 0
           /\ chunks' = mergeIntoLast(chunks, content, tokens)
    /\ chunkIndex' = chunkIndex + 1
    /\ stack' = Call(Head(Top.todo))
    /\ UNCHANGED <<treeVars, scrapeVars, nodes, roots, pc, paragraphs, buffer, bufferTokens>>

\* chunks.length > 0: too small, merge with previous chunk
ProcessMerge ==
    /\ CanCall
    /\ LET content == trim(NextSection.content)
           tokens  == estimateTokens(content)
       IN  /\ content # EmptyStr
           /\ ~(tokens > MAX_CHUNK_TOKENS)
           /\ ~(tokens >= MIN_CHUNK_TOKENS)
           /\ Len(chunks) > 0
           /\ chunks' = mergeIntoLast(chunks, content, tokens)
    /\ stack' = Call(Head(Top.todo))
    /\ UNCHANGED <<treeVars, scrapeVars, nodes, roots, chunkIndex, pc, paragraphs, buffer, bufferTokens>>

\* else: first chunk is small, still create it
ProcessFirstSmall ==
    /\ CanCall
    /\ LET id      == Head(Top.todo)
           content == trim(NextSection.content)
           tokens  == estimateTokens(content)
           cp      == currentPath(NextSection, Top.path)
       IN  /\ content # EmptyStr
           /\ ~(tokens > MAX_CHUNK_TOKENS)
           /\ ~(tokens >= MIN_CHUNK_TOKENS)
           /\ ~(Len(chunks) > 0)
           /\ chunks' = Append(chunks,
                  DocChunk(id, cp, firstChunkHeading(NextSection), content, tokens, chunkIndex))
    /\ chunkIndex' = chunkIndex + 1
    /\ stack' = Call(Head(Top.todo))
    /\ UNCHANGED <<treeVars, scrapeVars, nodes, roots, pc, paragraphs, buffer, bufferTokens>>

\* the paragraph the for loop reads next, while splitting an over-MAX section
Para == Head(paragraphs)

\* the section whose content is being split: the frame pushed by ProcessSplit
SplitSection == nodes[Top.section]

\* mutant of mustFlush: the flush does not look at the buffer being empty
mustFlushEmptyBuffer(buf, bufTokens, paraTokens) ==
    bufTokens + paraTokens > TARGET_CHUNK_TOKENS

\* bufferTokens + paraTokens > TARGET_CHUNK_TOKENS && buffer
mustFlush(buf, bufTokens, paraTokens) ==
    bufTokens + paraTokens > TARGET_CHUNK_TOKENS /\ buf # EmptyStr

\* mutant of SplitFlush: the buffer restarts empty, the paragraph is dropped
SplitFlushRestartEmpty ==
    /\ pc = "split"
    /\ paragraphs # <<>>
    /\ mustFlush(buffer, bufferTokens, estimateTokens(Para))
    /\ chunks' = Append(chunks,
           DocChunk(Top.section, Top.path, chunkHeading(SplitSection, Top.path),
                    trim(buffer), bufferTokens, chunkIndex))
    /\ chunkIndex' = chunkIndex + 1
    /\ buffer' = EmptyStr
    /\ bufferTokens' = 0
    /\ paragraphs' = Tail(paragraphs)
    /\ UNCHANGED <<treeVars, scrapeVars, nodes, roots, stack, pc>>

\* emit current buffer as chunk, restart the buffer with the paragraph
SplitFlush ==
    /\ pc = "split"
    /\ paragraphs # <<>>
    /\ mustFlush(buffer, bufferTokens, estimateTokens(Para))
    /\ chunks' = Append(chunks,
           DocChunk(Top.section, Top.path, chunkHeading(SplitSection, Top.path),
                    trim(buffer), bufferTokens, chunkIndex))
    /\ chunkIndex' = chunkIndex + 1
    /\ buffer' = Para
    /\ bufferTokens' = estimateTokens(Para)
    /\ paragraphs' = Tail(paragraphs)
    /\ UNCHANGED <<treeVars, scrapeVars, nodes, roots, stack, pc>>

\* buffer += (buffer ? '\n\n' : '') + para; bufferTokens += paraTokens
SplitAppend ==
    /\ pc = "split"
    /\ paragraphs # <<>>
    /\ ~mustFlush(buffer, bufferTokens, estimateTokens(Para))
    /\ buffer' = Concat(IF buffer # EmptyStr THEN Concat(buffer, BlankLine) ELSE buffer, Para)
    /\ bufferTokens' = bufferTokens + estimateTokens(Para)
    /\ paragraphs' = Tail(paragraphs)
    /\ UNCHANGED <<treeVars, scrapeVars, nodes, roots, chunks, chunkIndex, stack, pc>>

\* buffer && bufferTokens >= MIN_CHUNK_TOKENS: emit remaining buffer
SplitEmitRest ==
    /\ pc = "split"
    /\ paragraphs = <<>>
    /\ buffer # EmptyStr /\ bufferTokens >= MIN_CHUNK_TOKENS
    /\ chunks' = Append(chunks,
           DocChunk(Top.section, Top.path, chunkHeading(SplitSection, Top.path),
                    trim(buffer), bufferTokens, chunkIndex))
    /\ chunkIndex' = chunkIndex + 1
    /\ buffer' = EmptyStr
    /\ bufferTokens' = 0
    /\ pc' = "walk"
    /\ UNCHANGED <<treeVars, scrapeVars, nodes, roots, stack, paragraphs>>

\* buffer && chunks.length > 0: merge small remainder with previous chunk
SplitMergeRest ==
    /\ pc = "split"
    /\ paragraphs = <<>>
    /\ ~(buffer # EmptyStr /\ bufferTokens >= MIN_CHUNK_TOKENS)
    /\ buffer # EmptyStr /\ Len(chunks) > 0
    /\ chunks' = mergeIntoLast(chunks, trim(buffer), bufferTokens)
    /\ buffer' = EmptyStr
    /\ bufferTokens' = 0
    /\ pc' = "walk"
    /\ UNCHANGED <<treeVars, scrapeVars, nodes, roots, chunkIndex, stack, paragraphs>>

\* neither branch is taken (the if / else if has no else): the remainder goes nowhere
SplitDropRest ==
    /\ pc = "split"
    /\ paragraphs = <<>>
    /\ ~(buffer # EmptyStr /\ bufferTokens >= MIN_CHUNK_TOKENS)
    /\ ~(buffer # EmptyStr /\ Len(chunks) > 0)
    /\ buffer' = EmptyStr
    /\ bufferTokens' = 0
    /\ pc' = "walk"
    /\ UNCHANGED <<treeVars, scrapeVars, nodes, roots, chunks, chunkIndex, stack, paragraphs>>

\* the loop over section.children is exhausted: processSection returns
Return ==
    /\ pc = "walk"
    /\ Top.todo = <<>>
    /\ Len(stack) > 1
    /\ stack' = SubSeq(stack, 1, Len(stack) - 1)
    /\ UNCHANGED <<treeVars, scrapeVars, nodes, roots, chunks, chunkIndex, pc, paragraphs, buffer, bufferTokens>>

\* the loop over sections is exhausted: return chunks
Finish ==
    /\ pc = "walk"
    /\ Top.todo = <<>>
    /\ Len(stack) = 1
    /\ pc' = "done"
    /\ UNCHANGED <<treeVars, scrapeVars, nodes, roots, chunks, chunkIndex, stack, paragraphs, buffer, bufferTokens>>

\* sectionsToChunks(sections, docId, docTitle, docUrl) is entered with parentPath = []
ChunkerStart(sections) ==
    /\ chunks = <<>>
    /\ chunkIndex = 0
    /\ stack = <<[section |-> 0, path |-> <<>>, todo |-> sections]>>
    /\ pc = "walk"
    /\ paragraphs = <<>>
    /\ buffer = EmptyStr
    /\ bufferTokens = 0

\* ------------------------------------------------------- buildSectionTree
\* the text of the element at position k (1-based) of the document
HeaderText(k) == <<"h1", "h2", "h3", "h4", "h5", "h6", "h7", "h8">>[k]
ContentText(k) == <<Run(<<"a", "b", "c", "d", "e", "f", "g", "h">>[k], 1)>>

\* elements.push({ type: 'header', level, text }) and elements.push({ type: 'content', text }):
\* the documents of at most MaxElems elements with header levels 1..MaxLevel
IsElements(els) ==
    \E n \in 0..MaxElems :
        \E lv \in [1..n -> 0..MaxLevel] :
            els = [k \in 1..n |->
                      IF lv[k] = 0
                      THEN [type |-> "content", level |-> 0, text |-> ContentText(k)]
                      ELSE [type |-> "header", level |-> lv[k], text |-> HeaderText(k)]]

\* contentBuffer.join('\n\n')
RECURSIVE join(_)
join(texts) ==
    IF texts = <<>> THEN EmptyStr
    ELSE IF Len(texts) = 1 THEN texts[1]
    ELSE Concat(Concat(texts[1], BlankLine), join(Tail(texts)))

\* the locals of one invocation buildSectionTree(startIdx, parentLevel)
Frame(startIdx, parentLevel) ==
    [startIdx       |-> startIdx,
     parentLevel    |-> parentLevel,
     result         |-> <<>>,
     i              |-> startIdx,
     currentSection |-> 0,
     contentBuffer  |-> <<>>,
     looping        |-> TRUE]

Cur == calls[Len(calls)]

\* elements[i], i counted from 0 as in the source
El == elements[Cur.i + 1]

InLoop == calls # <<>> /\ Cur.looping

\* if (currentSection && contentBuffer.length > 0) currentSection.content = join
saveContent(ns, f) ==
    IF f.currentSection # 0 /\ Len(f.contentBuffer) > 0
    THEN [ns EXCEPT ![f.currentSection].content = join(f.contentBuffer)]
    ELSE ns

\* mutant of savedBuffer: the buffer is not emptied after it is saved
savedBufferKept(f) == f.contentBuffer

\* ... contentBuffer = []
savedBuffer(f) ==
    IF f.currentSection # 0 /\ Len(f.contentBuffer) > 0 THEN <<>> ELSE f.contentBuffer

\* else branch of the loop: contentBuffer.push(el.text); i++
TreeContent ==
    /\ InLoop
    /\ Cur.i < Len(elements)
    /\ ~(El.type = "header")
    /\ calls' = [calls EXCEPT ![Len(calls)] =
                    [@ EXCEPT !.contentBuffer = Append(@, El.text), !.i = @ + 1]]
    /\ UNCHANGED <<elements, scrapeVars, forestVars, chunkVars>>

\* mutant of TreeOpen: the opened header is not stepped over
TreeOpenNotAdvancing ==
    /\ InLoop
    /\ Cur.i < Len(elements)
    /\ El.type = "header"
    /\ ~(El.level <= Cur.parentLevel)
    /\ LET id == Len(nodes) + 1
       IN  /\ nodes' = Append(saveContent(nodes, Cur),
                  [level |-> El.level, heading |-> El.text, content |-> EmptyStr,
                   children |-> <<>>])
           /\ calls' = Append(
                  [calls EXCEPT ![Len(calls)] =
                      [@ EXCEPT !.contentBuffer = savedBuffer(Cur),
                                !.currentSection = id,
                                !.result = Append(@, id)]],
                  Frame(Cur.i, El.level))
    /\ UNCHANGED <<elements, scrapeVars, roots, chunkVars>>

\* a header below the parent level: save the previous section's content, create the
\* new section, push it on result, i++, and call buildSectionTree(i, el.level)
TreeOpen ==
    /\ InLoop
    /\ Cur.i < Len(elements)
    /\ El.type = "header"
    /\ ~(El.level <= Cur.parentLevel)
    /\ LET id == Len(nodes) + 1
       IN  /\ nodes' = Append(saveContent(nodes, Cur),
                  [level |-> El.level, heading |-> El.text, content |-> EmptyStr,
                   children |-> <<>>])
           /\ calls' = Append(
                  [calls EXCEPT ![Len(calls)] =
                      [@ EXCEPT !.contentBuffer = savedBuffer(Cur),
                                !.currentSection = id,
                                !.result = Append(@, id),
                                !.i = @ + 1]],
                  Frame(Cur.i + 1, El.level))
    /\ UNCHANGED <<elements, scrapeVars, roots, chunkVars>>

\* mutant of TreeBreak: the header that ends the invocation is consumed
TreeBreakConsuming ==
    /\ InLoop
    /\ Cur.i < Len(elements)
    /\ El.type = "header"
    /\ El.level <= Cur.parentLevel
    /\ nodes' = saveContent(nodes, Cur)
    /\ calls' = [calls EXCEPT ![Len(calls)] =
                    [@ EXCEPT !.contentBuffer = savedBuffer(Cur), !.looping = FALSE,
                              !.i = @ + 1]]
    /\ UNCHANGED <<elements, scrapeVars, roots, chunkVars>>

\* a header at or above the parent level: save the previous section's content, break
TreeBreak ==
    /\ InLoop
    /\ Cur.i < Len(elements)
    /\ El.type = "header"
    /\ El.level <= Cur.parentLevel
    /\ nodes' = saveContent(nodes, Cur)
    /\ calls' = [calls EXCEPT ![Len(calls)] =
                    [@ EXCEPT !.contentBuffer = savedBuffer(Cur), !.looping = FALSE]]
    /\ UNCHANGED <<elements, scrapeVars, roots, chunkVars>>

\* while (i < elements.length) is false
TreeExhausted ==
    /\ InLoop
    /\ ~(Cur.i < Len(elements))
    /\ calls' = [calls EXCEPT ![Len(calls)].looping = FALSE]
    /\ UNCHANGED <<elements, scrapeVars, forestVars, chunkVars>>

\* the code after the loop: save the final section's content, or create the intro
\* section of content before any header and unshift it on result
finalNodes(ns, f) ==
    IF f.currentSection # 0 /\ Len(f.contentBuffer) > 0
    THEN [ns EXCEPT ![f.currentSection].content = join(f.contentBuffer)]
    ELSE IF f.currentSection = 0 /\ Len(f.contentBuffer) > 0
    THEN Append(ns, [level |-> 0, heading |-> "Introduction",
                     content |-> join(f.contentBuffer), children |-> <<>>])
    ELSE ns

finalResult(ns, f) ==
    IF ~(f.currentSection # 0 /\ Len(f.contentBuffer) > 0)
       /\ f.currentSection = 0 /\ Len(f.contentBuffer) > 0
    THEN <<Len(ns) + 1>> \o f.result
    ELSE f.result

\* return { sections: result, endIdx: i } to the invocation that made the call:
\* currentSection.children = childResult.sections; i = childResult.endIdx
TreeReturn ==
    /\ calls # <<>>
    /\ ~Cur.looping
    /\ Len(calls) > 1
    /\ LET caller == calls[Len(calls) - 1]
       IN  /\ nodes' = [finalNodes(nodes, Cur) EXCEPT
                           ![caller.currentSection].children = finalResult(nodes, Cur)]
           /\ calls' = [SubSeq(calls, 1, Len(calls) - 1) EXCEPT
                           ![Len(calls) - 1].i = Cur.i]
    /\ UNCHANGED <<elements, scrapeVars, roots, chunkVars>>

\* return buildSectionTree(0, 0).sections
TreeFinish ==
    /\ calls # <<>>
    /\ ~Cur.looping
    /\ Len(calls) = 1
    /\ nodes' = finalNodes(nodes, Cur)
    /\ roots' = finalResult(nodes, Cur)
    /\ calls' = <<>>
    /\ UNCHANGED <<elements, scrapeVars, chunkVars>>

\* the chunker is not running
ChunkerIdle ==
    /\ chunks = <<>>
    /\ chunkIndex = 0
    /\ stack = <<>>
    /\ pc = "idle"
    /\ paragraphs = <<>>
    /\ buffer = EmptyStr
    /\ bufferTokens = 0

\* no metadata record has been built
NoMetadata == [id |-> 0]

\* neither initializeDocs nor scrapeDocs is running, the store is empty
ScrapeOff ==
    /\ forceRefresh = FALSE
    /\ step = "off"
    /\ pages = <<>>
    /\ pageIndex = 0
    /\ metadata = NoMetadata
    /\ docMetadata = {}
    /\ docChunks = <<>>
    /\ returned = -1
    /\ logged = <<>>
    /\ site = <<>>
    /\ requests = <<>>

\* parseHtmlToSections after the elements are collected: buildSectionTree(0, 0)
InitTree ==
    /\ ScrapeOff
    /\ IsElements(elements)
    /\ calls = <<Frame(0, 0)>>
    /\ nodes = <<>>
    /\ roots = <<>>
    /\ ChunkerIdle

NextTree ==
    \/ TreeContent
    \/ TreeOpen
    \/ TreeBreak
    \/ TreeExhausted
    \/ TreeReturn
    \/ TreeFinish

SpecTree == InitTree /\ [][NextTree]_vars

\* the longest documents of the fair specification
MaxFairElems == 5

InitTreeFair ==
    /\ InitTree
    /\ Len(elements) <= MaxFairElems

\* buildSectionTree is synchronous code: a call that can take a step takes it
SpecTreeFair == InitTreeFair /\ [][NextTree]_vars /\ WF_vars(NextTree)

Init ==
    /\ ScrapeOff
    /\ elements = <<>>
    /\ calls = <<>>
    /\ IsForest(nodes, roots)
    /\ ChunkerStart(roots)

Next ==
    \/ ProcessEmpty
    \/ ProcessSplit
    \/ ProcessEmit
    \/ ProcessMerge
    \/ ProcessFirstSmall
    \/ SplitFlush
    \/ SplitAppend
    \/ SplitEmitRest
    \/ SplitMergeRest
    \/ SplitDropRest
    \/ Return
    \/ Finish

Spec == Init /\ [][Next]_vars

\* ------------------------------------------------------------ properties
ChunkerDone == pc = "done"

TreeDone == pc = "idle" /\ calls = <<>>

NodeIds == 1..Len(nodes)

Range(s) == { s[k] : k \in DOMAIN s }

\* section.content.trim() of a section of the forest
Trimmed(id) == trim(nodes[id].content)

\* the sections from which a chunk was emitted
Origins == { chunks[k].origin : k \in DOMAIN chunks }

\* the parent of a section in the forest, 0 for a root
ParentOf(id) ==
    IF \E q \in NodeIds : id \in Range(nodes[q].children)
    THEN CHOOSE q \in NodeIds : id \in Range(nodes[q].children)
    ELSE 0

\* the breadcrumb of a section, read off the forest
RECURSIVE Breadcrumb(_)
Breadcrumb(id) ==
    IF id = 0 THEN <<>>
    ELSE IF nodes[id].heading # ""
         THEN Append(Breadcrumb(ParentOf(id)), nodes[id].heading)
         ELSE Breadcrumb(ParentOf(id))

\* the sections of the forest in pre-order
RECURSIVE PreOrder(_)
PreOrder(ids) ==
    IF ids = <<>> THEN <<>>
    ELSE <<Head(ids)>> \o PreOrder(nodes[Head(ids)].children) \o PreOrder(Tail(ids))

\* the paragraphs of a text that are not blank, each trimmed
NonBlank(paras) == SelectSeq([k \in DOMAIN paras |-> trim(paras[k])], LAMBDA q : q # EmptyStr)

ParagraphsOf(text) == NonBlank(splitParagraphs(text))

RECURSIVE SectionParagraphs(_)
SectionParagraphs(ids) ==
    IF ids = <<>> THEN <<>>
    ELSE ParagraphsOf(Trimmed(Head(ids))) \o SectionParagraphs(Tail(ids))

RECURSIVE ChunkParagraphs(_)
ChunkParagraphs(cs) ==
    IF cs = <<>> THEN <<>>
    ELSE ParagraphsOf(Head(cs).content) \o ChunkParagraphs(Tail(cs))

\* a section merged into an earlier chunk: it has content and emitted no chunk
Merged(id) == Trimmed(id) # EmptyStr /\ id \notin Origins

\* C1: the k-th chunk of the list carries chunk_index k (counted from 0), and the
\* counter always equals the number of chunks emitted so far: a merge and a section
\* that emits nothing leave it alone.
C1_ChunkIndexContiguous ==
    /\ \A k \in DOMAIN chunks : chunks[k].chunk_index = k - 1
    /\ chunkIndex = Len(chunks)

\* C1 witness: a finished run in which a section was merged into the previous chunk
\* and a later section emitted the chunk with index 1.
C1_Witness ==
    /\ ChunkerDone
    /\ Len(chunks) = 2
    /\ \E m \in NodeIds : Merged(m) /\ chunks[1].origin < m /\ m < chunks[2].origin

\* an over-MAX section whose content has no paragraph break
NoBreakOversized(id) ==
    /\ estimateTokens(Trimmed(id)) > MAX_CHUNK_TOKENS
    /\ Len(splitParagraphs(Trimmed(id))) = 1

\* C2: every chunk has MIN <= token_count <= MAX, unless it is the first chunk of the
\* document (may be under MIN) or comes from an over-MAX section without a paragraph
\* break (may exceed MAX).
C2_TokenCountBounded ==
    \A k \in DOMAIN chunks :
        /\ chunks[k].token_count >= MIN_CHUNK_TOKENS \/ k = 1
        /\ chunks[k].token_count <= MAX_CHUNK_TOKENS \/ NoBreakOversized(chunks[k].origin)

\* C3: when some section has non-empty trimmed content, the finished run has emitted
\* at least one chunk.
C3_ContentYieldsChunk ==
    ChunkerDone /\ (\E id \in NodeIds : Trimmed(id) # EmptyStr) => Len(chunks) >= 1

\* C4: in the final list every chunk's token_count is ceil(length(content) / 4).
C4_TokenCountIsEstimate ==
    ChunkerDone =>
        \A k \in DOMAIN chunks : chunks[k].token_count = estimateTokens(chunks[k].content)

\* C5: the paragraphs of the chunks, read in chunk_index order, are the paragraphs of
\* the sections' trimmed contents in pre-order: none lost, none duplicated.
C5_ContentConserved ==
    ChunkerDone => ChunkParagraphs(chunks) = SectionParagraphs(PreOrder(roots))

\* C9: every chunk's section_path is the breadcrumb of the section that emitted it.
C9_SectionPathIsBreadcrumb ==
    \A k \in DOMAIN chunks : chunks[k].section_path = Breadcrumb(chunks[k].origin)

\* C9 witness: a chunk emitted by a section whose parent has a heading and empty
\* content and whose grandparent has an empty heading.
C9_Witness ==
    /\ ChunkerDone
    /\ \E o \in Origins :
          /\ nodes[o].heading # ""
          /\ ParentOf(o) # 0
          /\ nodes[ParentOf(o)].heading # ""
          /\ Trimmed(ParentOf(o)) = EmptyStr
          /\ ParentOf(ParentOf(o)) # 0
          /\ nodes[ParentOf(ParentOf(o))].heading = ""
          /\ Len(Breadcrumb(o)) = 2

\* C10: every chunk of the list has non-empty content.
C10_ContentNonEmpty ==
    \A k \in DOMAIN chunks : chunks[k].content # EmptyStr

\* the texts of the content elements that follow position k up to the next header
RECURSIVE TextsFrom(_)
TextsFrom(k) ==
    IF k > Len(elements) \/ elements[k].type = "header" THEN <<>>
    ELSE <<elements[k].text>> \o TextsFrom(k + 1)

HeaderPositions == { k \in DOMAIN elements : elements[k].type = "header" }

\* C6: in the returned forest every child's level is strictly greater than its
\* parent's level.
C6_ChildLevelAboveParent ==
    TreeDone =>
        \A q \in NodeIds : \A c \in Range(nodes[q].children) :
            nodes[c].level > nodes[q].level

\* C7: the content of the section opened by a header is exactly the content elements
\* between that header and the next header, joined by blank lines.
C7_ContentBelongsToOpenSection ==
    TreeDone =>
        \A k \in HeaderPositions :
            /\ \E id \in NodeIds : nodes[id].heading = HeaderText(k)
            /\ \A id \in NodeIds :
                  nodes[id].heading = HeaderText(k) => nodes[id].content = join(TextsFrom(k + 1))

\* C8: the content elements before the first header become a level-0 "Introduction"
\* section that is the first element of the forest, and no other level-0 section is
\* created.
C8_IntroductionIsLeadingContent ==
    TreeDone =>
        /\ TextsFrom(1) # <<>> =>
              /\ roots # <<>>
              /\ nodes[roots[1]].level = 0
              /\ nodes[roots[1]].heading = "Introduction"
              /\ nodes[roots[1]].content = join(TextsFrom(1))
        /\ \A id \in NodeIds :
              nodes[id].level = 0 =>
                  /\ TextsFrom(1) # <<>>
                  /\ id = roots[1]
                  /\ nodes[id].content = join(TextsFrom(1))

\* ------------------------------------------------------------ merge branch
\* the next section is non-empty, below MIN_CHUNK_TOKENS, and a chunk exists
MergeCase ==
    /\ CanCall
    /\ Trimmed(Head(Top.todo)) # EmptyStr
    /\ estimateTokens(Trimmed(Head(Top.todo))) < MIN_CHUNK_TOKENS
    /\ Len(chunks) > 0

C12_HeadingFallsBackToBreadcrumb ==
    \A k \in DOMAIN chunks :
        LET section == nodes[chunks[k].origin]
            crumb   == chunks[k].section_path
        IN  IF section.heading # "" THEN chunks[k].heading = section.heading
            ELSE IF crumb # <<>> THEN chunks[k].heading = Last(crumb)
            ELSE chunks[k].heading \in {"Content", "Introduction"}

\* ------------------------------------------- oversized, break-free sections
\* the positions of the chunks emitted for section id
ChunksOf(id) == { k \in DOMAIN chunks : chunks[k].origin = id }

SmallSection(id) ==
    Trimmed(id) # EmptyStr /\ estimateTokens(Trimmed(id)) < MIN_CHUNK_TOKENS

\* the place of a section in the document: its position in the pre-order walk
Position(id) ==
    LET order == PreOrder(roots)
    IN  CHOOSE k \in DOMAIN order : order[k] = id

\* the content of section id is one of the paragraphs of chunk k
HoldsSection(k, id) == Trimmed(id) \in Range(ParagraphsOf(chunks[k].content))

\* the chunks emitted before section id is processed
ChunksBefore(id) ==
    { k \in DOMAIN chunks : Position(chunks[k].origin) < Position(id) }

Chars(h) ==
    CASE h = "Introduction" -> <<"I", "n", "t", "r", "o", "d", "u", "c", "t", "i", "o", "n">>
      [] h = "Quick INTRO"  -> <<"Q", "u", "i", "c", "k", " ", "I", "N", "T", "R", "O">>
      [] h = "Intranet"     -> <<"I", "n", "t", "r", "a", "n", "e", "t">>
      [] h = "Content"      -> <<"C", "o", "n", "t", "e", "n", "t">>
      [] h = ""             -> <<>>
      [] OTHER              -> <<h>>

UpperCase == <<"A", "B", "C", "D", "E", "F", "G", "H", "I", "J", "K", "L", "M",
               "N", "O", "P", "Q", "R", "S", "T", "U", "V", "W", "X", "Y", "Z">>
LowerCase == <<"a", "b", "c", "d", "e", "f", "g", "h", "i", "j", "k", "l", "m",
               "n", "o", "p", "q", "r", "s", "t", "u", "v", "w", "x", "y", "z">>

\* String.prototype.toLowerCase, on a sequence of characters
toLowerCase(cs) ==
    [k \in DOMAIN cs |->
        IF \E j \in DOMAIN UpperCase : UpperCase[j] = cs[k]
        THEN LowerCase[CHOOSE j \in DOMAIN UpperCase : UpperCase[j] = cs[k]]
        ELSE cs[k]]

\* String.prototype.includes, on sequences of characters
includes(cs, pattern) ==
    \E k \in 0..(Len(cs) - Len(pattern)) : SubSeq(cs, k + 1, k + Len(pattern)) = pattern

\* mutant of IsIntro: the heading is searched as written
IsIntroCaseSensitive(c) == includes(Chars(c.heading), <<"i", "n", "t", "r", "o">>)

\* c.heading.toLowerCase().includes('intro')
IsIntro(c) == includes(toLowerCase(Chars(c.heading)), <<"i", "n", "t", "r", "o">>)

\* chunks.find((c) => ...): the first chunk that satisfies IsIntro, as a
\* one-element sequence; the empty sequence stands for undefined
find(cs) ==
    IF \E k \in DOMAIN cs : IsIntro(cs[k])
    THEN <<cs[CHOOSE k \in DOMAIN cs : IsIntro(cs[k]) /\ \A j \in 1..(k - 1) : ~IsIntro(cs[j])]>>
    ELSE <<>>

\* text.substring(0, n)
RECURSIVE substring(_, _)
substring(text, n) ==
    IF text = <<>> \/ n <= 0 THEN <<>>
    ELSE IF text[1].n >= n THEN <<Run(text[1].c, n)>>
    ELSE <<text[1]>> \o substring(Tail(text), n - text[1].n)

\* text.lastIndexOf(ch) for a text that starts at position offset; -1 when absent
RECURSIVE lastIndexFrom(_, _, _)
lastIndexFrom(text, ch, offset) ==
    IF text = <<>> THEN -1
    ELSE LET later == lastIndexFrom(Tail(text), ch, offset + text[1].n)
         IN  IF later # -1 THEN later
             ELSE IF text[1].c = ch THEN offset + text[1].n - 1
             ELSE -1

lastIndexOf(text, ch) == lastIndexFrom(text, ch, 0)

\* the marker '...'
Ellipsis == <<Run(".", 3)>>

\* mutant of generateSummary: the slice is never cut at a period
generateSummaryUncut(cs) ==
    IF Len(cs) = 0 THEN EmptyStr
    ELSE LET found      == find(cs)
             introChunk == IF found # <<>> THEN found[1] ELSE cs[1]
         IN  Concat(substring(introChunk.content, 300), Ellipsis)

\* generateSummary(chunks)
generateSummary(cs) ==
    IF Len(cs) = 0 THEN EmptyStr
    ELSE LET found      == find(cs)
             introChunk == IF found # <<>> THEN found[1] ELSE cs[1]
             summary    == substring(introChunk.content, 300)
             lastPeriod == lastIndexOf(summary, ".")
         IN  IF lastPeriod > 100
             THEN substring(summary, lastPeriod + 1)
             ELSE Concat(summary, Ellipsis)

\* mutant of addSections: a plain array, every first element is pushed
RECURSIVE addSectionsEvery(_, _)
addSectionsEvery(sections, cs) ==
    IF cs = <<>> THEN sections
    ELSE LET path == Head(cs).section_path
         IN  IF Len(path) > 0
             THEN addSectionsEvery(Append(sections, path[1]), Tail(cs))
             ELSE addSectionsEvery(sections, Tail(cs))

\* extractSections(chunks): the Set keeps insertion order, Array.from lists it
RECURSIVE addSections(_, _)
addSections(sections, cs) ==
    IF cs = <<>> THEN sections
    ELSE LET path == Head(cs).section_path
         IN  IF Len(path) > 0 /\ path[1] \notin Range(sections)
             THEN addSections(Append(sections, path[1]), Tail(cs))
             ELSE addSections(sections, Tail(cs))

extractSections(cs) == addSections(<<>>, cs)

\* ---------------------------------------------------------------- scrapeDocs
\* `doc-${i + 1}`: the document id of the page at loop index i, kept as the number i + 1
DocId(i) == i + 1

\* the row upsertChunks writes for a chunk (the embedding is left out)
DbDocChunk(docId, c) ==
    [doc_id       |-> docId,
     section_path |-> c.section_path,
     heading      |-> c.heading,
     content      |-> c.content,
     token_count  |-> c.token_count,
     chunk_index  |-> c.chunk_index]

\* the object literal const metadata: DocMetadata (title, url and type are left out)
DocMetadata(docId, cs) ==
    [id           |-> docId,
     summary      |-> generateSummary(cs),
     sections     |-> extractSections(cs),
     total_chunks |-> Len(cs)]

\* sectionsToChunks has returned inside the loop of scrapeDocs
Chunked == step = "chunk" /\ pc = "done"

\* mutant of BeginPage: the chunks array and chunkIndex live on across the pages
BeginPageKeepingChunks ==
    /\ step = "loop"
    /\ pageIndex < Len(pages)
    /\ nodes' = pages[pageIndex + 1].nodes
    /\ roots' = pages[pageIndex + 1].roots
    /\ stack' = <<[section |-> 0, path |-> <<>>, todo |-> pages[pageIndex + 1].roots]>>
    /\ pc' = "walk"
    /\ paragraphs' = <<>>
    /\ buffer' = EmptyStr
    /\ bufferTokens' = 0
    /\ metadata' = NoMetadata
    /\ step' = "chunk"
    /\ UNCHANGED <<treeVars, chunks, chunkIndex, forceRefresh, serviceVars, pages, pageIndex,
                   docMetadata, docChunks, returned, logged>>

\* the next page is parsed and sectionsToChunks is called on its sections:
\* the call starts with its own empty chunks array and chunkIndex 0
BeginPage ==
    /\ step = "loop"
    /\ pageIndex < Len(pages)
    /\ nodes' = pages[pageIndex + 1].nodes
    /\ roots' = pages[pageIndex + 1].roots
    /\ chunks' = <<>>
    /\ chunkIndex' = 0
    /\ stack' = <<[section |-> 0, path |-> <<>>, todo |-> pages[pageIndex + 1].roots]>>
    /\ pc' = "walk"
    /\ paragraphs' = <<>>
    /\ buffer' = EmptyStr
    /\ bufferTokens' = 0
    /\ metadata' = NoMetadata
    /\ step' = "chunk"
    /\ UNCHANGED <<treeVars, forceRefresh, serviceVars, pages, pageIndex, docMetadata, docChunks,
                   returned, logged>>

\* mutant of SkipPage: a metadata row is stored for the page without chunks
SkipPageWithMetadata ==
    /\ Chunked
    /\ Len(chunks) = 0
    /\ logged' = Append(logged, "No chunks generated")
    /\ docMetadata' = docMetadata \cup {DocMetadata(DocId(pageIndex), chunks)}
    /\ pageIndex' = pageIndex + 1
    /\ step' = "loop"
    /\ UNCHANGED <<treeVars, forestVars, chunkVars, forceRefresh, serviceVars, pages, metadata,
                   docChunks, returned>>

\* chunks.length === 0: log.warning and continue
SkipPage ==
    /\ Chunked
    /\ Len(chunks) = 0
    /\ logged' = Append(logged, "No chunks generated")
    /\ pageIndex' = pageIndex + 1
    /\ step' = "loop"
    /\ UNCHANGED <<treeVars, forestVars, chunkVars, forceRefresh, serviceVars, pages, metadata,
                   docMetadata, docChunks, returned>>

\* await generateEmbeddings(texts) is entered
CallEmbeddings ==
    /\ Chunked
    /\ ~(Len(chunks) = 0)
    /\ step' = "embed"
    /\ UNCHANGED <<treeVars, forestVars, chunkVars, forceRefresh, serviceVars, pages, pageIndex,
                   metadata, docMetadata, docChunks, returned, logged>>

\* the embeddings arrive: the metadata is created and upsertDocMetadata is called
BuildMetadata ==
    /\ step = "embed"
    /\ metadata' = DocMetadata(DocId(pageIndex), chunks)
    /\ step' = "upsertDocMetadata"
    /\ UNCHANGED <<treeVars, forestVars, chunkVars, forceRefresh, serviceVars, pages, pageIndex,
                   docMetadata, docChunks, returned, logged>>

\* doc_metadata.upsert: the row with the same id is replaced
UpsertDocMetadata ==
    /\ step = "upsertDocMetadata"
    /\ docMetadata' = { r \in docMetadata : r.id # metadata.id } \cup {metadata}
    /\ step' = "upsertChunks"
    /\ UNCHANGED <<treeVars, forestVars, chunkVars, forceRefresh, serviceVars, pages, pageIndex,
                   metadata, docChunks, returned, logged>>

\* doc_chunks.upsert: every chunk has a fresh id, so every row is new
UpsertChunks ==
    /\ step = "upsertChunks"
    /\ docChunks' = docChunks \o [k \in DOMAIN chunks |-> DbDocChunk(DocId(pageIndex), chunks[k])]
    /\ pageIndex' = pageIndex + 1
    /\ step' = "loop"
    /\ UNCHANGED <<treeVars, forestVars, chunkVars, forceRefresh, serviceVars, pages, metadata,
                   docMetadata, returned, logged>>

\* crawler.run, generateEmbeddings, upsertDocMetadata or upsertChunks throws: scrapeDocs
\* rejects and the catch of initializeDocs returns 0
AwaitThrows ==
    /\ step \in {"crawl", "embed", "upsertDocMetadata", "upsertChunks"}
    /\ logged' = Append(logged, "Failed to scrape documentation")
    /\ returned' = 0
    /\ step' = "returned"
    /\ UNCHANGED <<treeVars, forestVars, chunkVars, forceRefresh, serviceVars, pages, pageIndex,
                   metadata, docMetadata, docChunks>>

\* the loop is over: scrapeDocs returns, initializeDocs returns result.docsProcessed
ScrapeReturn ==
    /\ step = "loop"
    /\ ~(pageIndex < Len(pages))
    /\ logged' = Append(logged, "Scraping complete")
    /\ returned' = Len(pages)
    /\ step' = "returned"
    /\ UNCHANGED <<treeVars, forestVars, chunkVars, forceRefresh, serviceVars, pages, pageIndex,
                   metadata, docMetadata, docChunks>>

\* ------------------------------------------- chunk lists for the summarizer
\* contents for the chunk at position k: the letter tells the chunks apart, the
\* periods sit at (0-based) index 50; 100; 101; 150 and 251; 299; 300; nowhere;
\* 120..122
MetaContents(k) ==
    LET x == Letter1(k)
        y == Letter2(k)
    IN  << <<Run(x, 50), Run(".", 1), Run(y, 60)>>,
           <<Run(x, 100), Run(".", 1), Run(y, 250)>>,
           <<Run(x, 101), Run(".", 1), Run(y, 250)>>,
           <<Run(x, 150), Run(".", 1), Run(y, 100), Run(".", 1), Run(x, 100)>>,
           <<Run(x, 299), Run(".", 1), Run(y, 50)>>,
           <<Run(x, 300), Run(".", 1), Run(y, 50)>>,
           <<Run(x, 20)>>,
           <<Run(x, 120), Run(".", 3), Run(y, 400)>> >>

\* section_path and heading of a chunk, as processSection pairs them
MetaPaths ==
    << [path |-> <<>>,                    heading |-> "Introduction"],
       [path |-> <<>>,                    heading |-> "Content"],
       [path |-> <<"A">>,                 heading |-> "A"],
       [path |-> <<"A", "Introduction">>, heading |-> "Introduction"],
       [path |-> <<"B", "Quick INTRO">>,  heading |-> "Quick INTRO"],
       [path |-> <<"Intranet">>,          heading |-> "Intranet"],
       [path |-> <<"B">>,                 heading |-> "B"],
       [path |-> <<"A", "B">>,            heading |-> "B"] >>

\* the chunks a list may hold at position k
MetaChoices(k) ==
    LET cs == MetaContents(k)
        mk(p, c) == DocChunk(0, MetaPaths[p].path, MetaPaths[p].heading,
                             cs[c], estimateTokens(cs[c]), k - 1)
    IN  << mk(1, 7), mk(2, 1), mk(3, 2), mk(3, 3), mk(4, 4), mk(4, 6),
           mk(5, 5), mk(6, 8), mk(7, 3), mk(8, 1), mk(6, 2), mk(5, 2) >>

\* a page whose sections are not looked at
BlankPage == [nodes |-> <<>>, roots |-> <<>>]

\* sectionsToChunks has just returned a list of at most MaxChunks chunks for
\* the only page of a scrape
InitMeta ==
    /\ elements = <<>>
    /\ calls = <<>>
    /\ nodes = <<>>
    /\ roots = <<>>
    /\ \E n \in 0..MaxChunks :
          \E c \in [1..n -> DOMAIN MetaChoices(1)] :
              chunks = [k \in 1..n |-> MetaChoices(k)[c[k]]]
    /\ chunkIndex = Len(chunks)
    /\ stack = <<[section |-> 0, path |-> <<>>, todo |-> <<>>]>>
    /\ pc = "done"
    /\ paragraphs = <<>>
    /\ buffer = EmptyStr
    /\ bufferTokens = 0
    /\ forceRefresh = FALSE
    /\ step = "chunk"
    /\ pages = <<BlankPage>>
    /\ pageIndex = 0
    /\ metadata = NoMetadata
    /\ docMetadata = {}
    /\ docChunks = <<>>
    /\ returned = -1
    /\ logged = <<>>
    /\ site = <<>>
    /\ requests = <<>>

NextMeta ==
    \/ SkipPage
    \/ CallEmbeddings
    \/ BuildMetadata
    \/ UpsertDocMetadata
    \/ UpsertChunks
    \/ AwaitThrows
    \/ ScrapeReturn

SpecMeta == InitMeta /\ [][NextMeta]_vars

\* a metadata record has been built from the chunk list
MetadataBuilt == metadata # NoMetadata

\* ------------------------------------------------------------------ summary
\* the headings of the model that contain "intro" in some mix of cases
IntroHeadings == {"Introduction", "Quick INTRO"}

\* the positions of the chunks with such a heading
IntroChunks == { k \in DOMAIN chunks : chunks[k].heading \in IntroHeadings }

\* the chunk the summary has to be taken from
SummarySource ==
    IF IntroChunks # {}
    THEN CHOOSE k \in IntroChunks : \A j \in IntroChunks : k <= j
    ELSE 1

\* text is a prefix of content of at most 300 characters, with or without "..."
TakenFrom(text, content) ==
    \E n \in 1..300 :
        \/ text = substring(content, n)
        \/ text = Concat(substring(content, n), Ellipsis)

\* C15: the summary is taken from the first chunk, in chunk order, whose heading
\* contains "intro" in any mix of cases, and from the first chunk of the list
\* only when no chunk has such a heading
C15_SummaryFromFirstIntroChunk ==
    MetadataBuilt => TakenFrom(metadata.summary, chunks[SummarySource].content)

\* a chunk headed "Introduction" is chosen over an earlier chunk of another section
C15_Witness ==
    /\ MetadataBuilt
    /\ SummarySource > 1
    /\ chunks[SummarySource].heading = "Introduction"
    /\ TakenFrom(metadata.summary, chunks[SummarySource].content)
    /\ ~TakenFrom(metadata.summary, chunks[1].content)

\* the character at (0-based) index i of a text
RECURSIVE charAt(_, _)
charAt(text, i) ==
    IF text[1].n > i THEN text[1].c ELSE charAt(Tail(text), i - text[1].n)

\* the indexes above 100 and inside the first 300 characters that hold a period
LatePeriods(content) ==
    { i \in 101..299 : i < StrLen(content) /\ charAt(content, i) = "." }

\* C16: for a non-empty chunk list the summary is the prefix of the selected
\* content that ends with, and includes, a period located after index 100
\* within the first 300 characters when there is such a period, otherwise the
\* first 300 characters followed by "..."; it is never longer than 303
\* characters
C16_SummaryCutAtPeriod ==
    MetadataBuilt =>
        LET content == chunks[SummarySource].content
        IN  /\ IF LatePeriods(content) # {}
               THEN \E i \in LatePeriods(content) :
                        metadata.summary = substring(content, i + 1)
               ELSE metadata.summary = Concat(substring(content, 300), Ellipsis)
            /\ StrLen(metadata.summary) <= 303

\* the summary of a content longer than 300 characters ends at its period at index 101
C16_Witness ==
    /\ MetadataBuilt
    /\ StrLen(chunks[SummarySource].content) > 300
    /\ LatePeriods(chunks[SummarySource].content) = {101}
    /\ StrLen(metadata.summary) = 102
    /\ charAt(metadata.summary, 101) = "."

\* ----------------------------------------------------------------- sections
\* the first breadcrumb elements of the chunks
FirstElements ==
    { chunks[k].section_path[1] : k \in { j \in DOMAIN chunks : chunks[j].section_path # <<>> } }

\* the position of the first chunk whose breadcrumb starts with h
FirstSeen(h) ==
    CHOOSE k \in DOMAIN chunks :
        /\ chunks[k].section_path # <<>> /\ chunks[k].section_path[1] = h
        /\ \A j \in 1..(k - 1) :
              chunks[j].section_path = <<>> \/ chunks[j].section_path[1] # h

\* C17: the sections of the metadata are the first breadcrumb elements of the
\* chunks, each listed once, in the order in which the chunks first show them;
\* a chunk with an empty section_path adds nothing; total_chunks is the number
\* of chunks
C17_SectionsAreFirstElements ==
    MetadataBuilt =>
        LET sections == metadata.sections
        IN  /\ Range(sections) = FirstElements
            /\ Len(sections) = Cardinality(FirstElements)
            /\ \A i, j \in DOMAIN sections :
                  i < j => FirstSeen(sections[i]) < FirstSeen(sections[j])
            /\ metadata.total_chunks = Len(chunks)

\* three chunks: one without breadcrumb and two that share their first element
C17_Witness ==
    /\ MetadataBuilt
    /\ Len(chunks) = 3
    /\ \E k \in DOMAIN chunks : chunks[k].section_path = <<>>
    /\ Cardinality(FirstElements) = 1
    /\ Len(metadata.sections) = 1
    /\ metadata.total_chunks = 3

\* ------------------------------------------------------------ initializeDocs
\* input.forceRefresh ?? false, for an input [defined, value]
forceRefreshOf(input) == IF input.defined THEN input.value ELSE FALSE

\* the values of input.forceRefresh: undefined, true, false
ForceRefreshInputs ==
    { [defined |-> FALSE, value |-> FALSE],
      [defined |-> TRUE,  value |-> TRUE],
      [defined |-> TRUE,  value |-> FALSE] }

\* what an earlier scrape left in the store: nothing; one document with its
\* chunk; two documents, the second without chunks (its upsertChunks failed)
ExistingStores ==
    LET one == <<MetaChoices(1)[3]>>
        two == <<MetaChoices(1)[5], MetaChoices(2)[9]>>
    IN  << [docMetadata |-> {}, docChunks |-> <<>>],
           [docMetadata |-> {DocMetadata(1, one)},
            docChunks   |-> <<DbDocChunk(1, one[1])>>],
           [docMetadata |-> {DocMetadata(1, one), DocMetadata(2, two)},
            docChunks   |-> <<DbDocChunk(1, one[1])>>] >>

\* the page whose sections are the forest of n sections with parents p and choices c
Page(n, p, c) ==
    LET kids == ChildLists(n, p)
    IN  [nodes |-> MkNodes(n, p, kids, c), roots |-> kids[n + 1]]

\* the pages a crawl may collect: without sections; one small section; a section
\* of MAX tokens with a small child; a heading without content followed by a
\* section of two tiny paragraphs far apart; a section of five paragraphs with
\* such a child
PageChoices ==
    << Page(0, <<>>, <<>>),
       Page(1, <<0>>, <<2>>),
       Page(2, <<0, 1>>, <<3, 2>>),
       Page(2, <<0, 0>>, <<1, 6>>),
       Page(2, <<0, 1>>, <<5, 6>>) >>

\* existingDocs.length > 0 && !forceRefresh: return existingDocs.length
FoundExisting ==
    /\ step = "listDocs"
    /\ Cardinality(docMetadata) > 0 /\ ~forceRefresh
    /\ logged' = Append(logged, "skipping scrape")
    /\ returned' = Cardinality(docMetadata)
    /\ step' = "returned"
    /\ UNCHANGED <<treeVars, forestVars, chunkVars, forceRefresh, serviceVars, pages, pageIndex,
                   metadata, docMetadata, docChunks>>

\* mutant of ForceClear: scrapeDocs is called without waiting for clearAll
ForceClearNotAwaited ==
    /\ step = "listDocs"
    /\ forceRefresh /\ Cardinality(docMetadata) > 0
    /\ logged' = logged \o <<"clearing existing data", "Scraping documentation">>
    /\ step' = "crawl"
    /\ UNCHANGED <<treeVars, forestVars, chunkVars, forceRefresh, serviceVars, pages, pageIndex,
                   metadata, docMetadata, docChunks, returned>>

\* forceRefresh && existingDocs.length > 0: await vectorDb.clearAll() is entered
ForceClear ==
    /\ step = "listDocs"
    /\ ~(Cardinality(docMetadata) > 0 /\ ~forceRefresh)
    /\ forceRefresh /\ Cardinality(docMetadata) > 0
    /\ logged' = Append(logged, "clearing existing data")
    /\ step' = "clearChunks"
    /\ UNCHANGED <<treeVars, forestVars, chunkVars, forceRefresh, serviceVars, pages, pageIndex,
                   metadata, docMetadata, docChunks, returned>>

\* neither if is taken: scrapeDocs is called and waits for crawler.run
StartScrape ==
    /\ step = "listDocs"
    /\ ~(Cardinality(docMetadata) > 0 /\ ~forceRefresh)
    /\ ~(forceRefresh /\ Cardinality(docMetadata) > 0)
    /\ logged' = Append(logged, "Scraping documentation")
    /\ step' = "crawl"
    /\ UNCHANGED <<treeVars, forestVars, chunkVars, forceRefresh, serviceVars, pages, pageIndex,
                   metadata, docMetadata, docChunks, returned>>

\* clearAll: doc_chunks.delete() of every row
ClearChunks ==
    /\ step = "clearChunks"
    /\ docChunks' = <<>>
    /\ step' = "clearMetadata"
    /\ UNCHANGED <<treeVars, forestVars, chunkVars, forceRefresh, serviceVars, pages, pageIndex,
                   metadata, docMetadata, returned, logged>>

\* clearAll: doc_metadata.delete() of every row; clearAll returns, scrapeDocs
\* is called and waits for crawler.run
ClearMetadata ==
    /\ step = "clearMetadata"
    /\ docMetadata' = {}
    /\ logged' = logged \o <<"Cleared all data", "Scraping documentation">>
    /\ step' = "crawl"
    /\ UNCHANGED <<treeVars, forestVars, chunkVars, forceRefresh, serviceVars, pages, pageIndex,
                   metadata, docChunks, returned>>

\* listDocs or a delete of clearAll reports an error: it is thrown and nothing
\* in initializeDocs catches it
StartupThrows ==
    /\ step \in {"listDocs", "clearChunks", "clearMetadata"}
    /\ step' = "crashed"
    /\ UNCHANGED <<treeVars, forestVars, chunkVars, forceRefresh, serviceVars, pages, pageIndex,
                   metadata, docMetadata, docChunks, returned, logged>>

\* crawler.run resolves: the request handler has collected at most MaxPages pages
Crawl ==
    /\ step = "crawl"
    /\ \E n \in 0..MaxPages :
          \E c \in [1..n -> DOMAIN PageChoices] :
              pages' = [k \in 1..n |-> PageChoices[c[k]]]
    /\ pageIndex' = 0
    /\ step' = "loop"
    /\ UNCHANGED <<treeVars, forestVars, chunkVars, forceRefresh, serviceVars, metadata,
                   docMetadata, docChunks, returned, logged>>

\* initializeDocs has read its input and waits for vectorDb.listDocs()
InitDocs ==
    /\ elements = <<>>
    /\ calls = <<>>
    /\ nodes = <<>>
    /\ roots = <<>>
    /\ chunks = <<>>
    /\ chunkIndex = 0
    /\ stack = <<[section |-> 0, path |-> <<>>, todo |-> <<>>]>>
    /\ pc = "idle"
    /\ paragraphs = <<>>
    /\ buffer = EmptyStr
    /\ bufferTokens = 0
    /\ \E input \in ForceRefreshInputs : forceRefresh = forceRefreshOf(input)
    /\ step = "listDocs"
    /\ pages = <<>>
    /\ pageIndex = 0
    /\ metadata = NoMetadata
    /\ \E k \in DOMAIN ExistingStores :
          /\ docMetadata = ExistingStores[k].docMetadata
          /\ docChunks = ExistingStores[k].docChunks
    /\ returned = -1
    /\ logged = <<>>
    /\ site = <<>>
    /\ requests = <<>>

NextDocs ==
    \/ FoundExisting
    \/ ForceClear
    \/ StartScrape
    \/ ClearChunks
    \/ ClearMetadata
    \/ StartupThrows
    \/ Crawl
    \/ BeginPage
    \/ ProcessEmpty
    \/ ProcessSplit
    \/ ProcessEmit
    \/ ProcessMerge
    \/ ProcessFirstSmall
    \/ SplitFlush
    \/ SplitAppend
    \/ SplitEmitRest
    \/ SplitMergeRest
    \/ SplitDropRest
    \/ Return
    \/ Finish
    \/ SkipPage
    \/ CallEmbeddings
    \/ BuildMetadata
    \/ UpsertDocMetadata
    \/ UpsertChunks
    \/ AwaitThrows
    \/ ScrapeReturn

SpecDocs == InitDocs /\ [][NextDocs]_vars

\* ----------------------------------------------------- documents without chunks
\* scrapeDocs has run through all pages and initializeDocs has returned
ScrapeCompleted ==
    step = "returned" /\ logged # <<>> /\ Last(logged) = "Scraping complete"

\* the stored chunk rows of document d, in insertion order
RowsOf(d) == SelectSeq(docChunks, LAMBDA r : r.doc_id = d)

\* the stored metadata rows of document d
MetadataOf(d) == { r \in docMetadata : r.id = d }

\* page i (1-based) has no block element: its section forest is empty
EmptyDocument(i) == pages[i].roots = <<>>

\* page i has yielded no chunk
Chunkless(i) == RowsOf(i) = <<>>

\* C18 as stated: a page that is empty or yields no chunk gets a metadata
\* record with summary "", sections [] and total_chunks 0
C18_EmptyDocumentHasMetadata ==
    ScrapeCompleted =>
        \A i \in DOMAIN pages :
            Chunkless(i) =>
                [id |-> i, summary |-> EmptyStr, sections |-> <<>>, total_chunks |-> 0]
                    \in docMetadata

\* C18 amended: a page that is empty or yields no chunk is not an error: the
\* scrape goes on and returns the number of pages; generateSummary and
\* extractSections give "" and [] for the empty chunk list, but scrapeDocs
\* skips the page, so neither a metadata row nor a chunk row is stored for it,
\* while every other page has one metadata row with its number of chunks
C18_EmptyDocumentIsSkipped ==
    /\ generateSummary(<<>>) = EmptyStr
    /\ extractSections(<<>>) = <<>>
    /\ ScrapeCompleted =>
          /\ returned = Len(pages)
          /\ \A i \in DOMAIN pages :
                /\ EmptyDocument(i) => Chunkless(i)
                /\ Chunkless(i) => MetadataOf(i) = {}
                /\ ~Chunkless(i) =>
                      \E r \in docMetadata :
                          MetadataOf(i) = {r} /\ r.total_chunks = Len(RowsOf(i))

\* an empty page and a page whose content yields no chunk were skipped, and a
\* page after them was stored
C18_Witness ==
    /\ ScrapeCompleted
    /\ Len(pages) = 3
    /\ EmptyDocument(1) /\ MetadataOf(1) = {}
    /\ ~EmptyDocument(2) /\ Chunkless(2) /\ MetadataOf(2) = {}
    /\ ~Chunkless(3) /\ MetadataOf(3) # {}

\* ------------------------------------------------ documents are independent
\* the positions of scrapeDocs from crawler.run to its return
ScrapeSteps == {"crawl", "loop", "chunk", "embed", "upsertDocMetadata", "upsertChunks"}

\* the stored chunks of document d without the document's identity
ChunkListOf(d) == [k \in DOMAIN RowsOf(d) |-> [RowsOf(d)[k] EXCEPT !.doc_id = 0]]

\* C19: the chunks of a document depend only on the document: two pages with
\* the same sections get the same chunk list wherever they stand in the crawl
\* (the first page is processed with nothing before it), and while scrapeDocs
\* runs no stored chunk is changed, so a merge never touches a chunk of
\* another document
C19_DocumentsAreIndependent ==
    /\ [](\A i, j \in 1..pageIndex :
             pages[i] = pages[j] => ChunkListOf(i) = ChunkListOf(j))
    /\ [][(step \in ScrapeSteps) =>
            /\ Len(docChunks') >= Len(docChunks)
            /\ \A k \in DOMAIN docChunks : docChunks'[k] = docChunks[k]]_vars

\* the same page, which starts with a below-MIN section, was processed first
\* and again after a different page that has chunks
C19_Witness ==
    /\ ScrapeCompleted
    /\ Len(pages) = 3
    /\ pages[1] = pages[3] /\ pages[2] # pages[1]
    /\ ~Chunkless(1) /\ ~Chunkless(2)
    /\ RowsOf(3)[1].token_count < MIN_CHUNK_TOKENS
    /\ ChunkListOf(1) = ChunkListOf(3)

\* ------------------------------------------------------- scraping at startup
\* C20: initializeDocs scrapes if and only if the store holds no document or
\* forceRefresh is true: with documents and without forceRefresh it returns
\* their number, leaves the store as it is and never starts a scrape; with
\* documents and forceRefresh it first calls clearAll, and when the scrape
\* starts clearAll has completed: the store is empty
C20_ScrapeIfEmptyOrForced ==
    /\ [][(step = "listDocs" /\ step' \notin {"listDocs", "crashed"}) =>
            IF docMetadata = {} \/ forceRefresh
            THEN /\ step' \in {"clearChunks", "crawl"}
                 /\ step' = "clearChunks" <=> docMetadata # {}
            ELSE /\ step' = "returned"
                 /\ returned' = Cardinality(docMetadata)
                 /\ UNCHANGED <<docMetadata, docChunks, pages>>]_vars
    /\ []("skipping scrape" \in Range(logged) =>
             /\ step = "returned"
             /\ pages = <<>>
             /\ "Scraping documentation" \notin Range(logged))
    /\ [][(step # "crawl" /\ step' = "crawl") =>
             docMetadata' = {} /\ docChunks' = <<>>]_vars

\* a forced refresh over existing documents: clearAll completed, then the
\* scrape ran and stored the pages it found
C20_Witness ==
    /\ ScrapeCompleted
    /\ forceRefresh
    /\ \E k \in DOMAIN logged :
          /\ logged[k] = "Cleared all data"
          /\ logged[k + 1] = "Scraping documentation"
    /\ docMetadata # {}
    /\ \A r \in docMetadata : r.total_chunks = Len(RowsOf(r.id))

\* --------------------------------------------------- headers and the forest
\* the texts of the header elements, in document order
DocumentHeadings ==
    LET headers == SelectSeq(elements, LAMBDA el : el.type = "header")
    IN  [k \in DOMAIN headers |-> headers[k].text]

\* the headings of the sections that headers created, met by a pre-order walk
ForestHeadings ==
    LET walk     == PreOrder(roots)
        sections == SelectSeq(walk, LAMBDA id : nodes[id].level # 0)
    IN  [k \in DOMAIN sections |-> nodes[sections[k]].heading]

\* C22: an invocation that stopped before the end of the input stopped at a
\* header whose level is <= its parentLevel and returns the index of that
\* header; every header creates exactly one section, and a pre-order walk of
\* the returned forest lists the headings in document order
C22_HeadersBecomeSectionsInOrder ==
    /\ \A k \in DOMAIN calls :
          (~calls[k].looping /\ calls[k].i < Len(elements)) =>
              /\ elements[calls[k].i + 1].type = "header"
              /\ elements[calls[k].i + 1].level <= calls[k].parentLevel
    /\ TreeDone =>
          /\ ForestHeadings = DocumentHeadings
          /\ Len(PreOrder(roots)) = Len(nodes)
          /\ Cardinality({ id \in NodeIds : nodes[id].level # 0 }) = Len(DocumentHeadings)

\* headers of levels 1, 2, 3, 1: the last one ends two nested invocations and
\* becomes the second root
C22_Witness ==
    /\ TreeDone
    /\ Len(elements) = 4
    /\ \A k \in 1..4 : elements[k].type = "header"
    /\ <<elements[1].level, elements[2].level, elements[3].level, elements[4].level>>
           = <<1, 2, 3, 1>>
    /\ Len(roots) = 2
    /\ ForestHeadings = <<"h1", "h2", "h3", "h4">>

\* the positions k of a header directly followed by a header of the same level
AdjacentPairs ==
    { k \in 1..(Len(elements) - 1) :
        /\ elements[k].type = "header"
        /\ elements[k + 1].type = "header"
        /\ elements[k + 1].level = elements[k].level }

\* C23: of two adjacent headers of the same level with no content between
\* them, the section created for the first has empty content, whatever
\* precedes or follows the pair
C23_FirstOfAdjacentPairIsEmpty ==
    TreeDone =>
        \A k \in AdjacentPairs :
            \A id \in NodeIds :
                nodes[id].heading = elements[k].text => nodes[id].content = EmptyStr

\* ------------------------------------------------------ content conservation
\* the texts of the content elements, in document order
DocumentTexts ==
    LET contents == SelectSeq(elements, LAMBDA el : el.type = "content")
    IN  [k \in DOMAIN contents |-> contents[k].text]

\* C26: buildSectionTree conserves content: the content texts met by a
\* pre-order walk of the returned forest are the texts of the content
\* elements, each once and in document order, and a content that has been
\* assigned to a node is never assigned again
C26_TreeConservesContent ==
    /\ [](TreeDone =>
            /\ SectionParagraphs(PreOrder(roots)) = DocumentTexts
            /\ Len(PreOrder(roots)) = Len(nodes))
    /\ [][\A id \in NodeIds :
            nodes[id].content # EmptyStr => nodes'[id].content = nodes[id].content]_vars

\* content before, between and after headers: two texts joined in one
\* section, others in other nodes
C26_Witness ==
    /\ TreeDone
    /\ Len(DocumentTexts) >= 4
    /\ \E id \in NodeIds : Len(ParagraphsOf(Trimmed(id))) = 2
    /\ Cardinality({ id \in NodeIds : nodes[id].content # EmptyStr }) >= 3

\* -------------------------------------------------------------- termination
\* C25: buildSectionTree terminates on every finite element sequence: the
\* top-level call eventually returns; the index of an invocation is never
\* below its startIdx; opening a section steps over its header before the
\* recursive call, and a callee's endIdx never moves the caller back; the
\* top-level invocation leaves its loop only at the end of the sequence
C25_BuildSectionTreeTerminates ==
    /\ <>TreeDone
    /\ [](\A k \in DOMAIN calls :
            /\ calls[k].i >= calls[k].startIdx
            /\ calls[k].i <= Len(elements))
    /\ []((Len(calls) = 1 /\ ~calls[1].looping) => calls[1].i = Len(elements))
    /\ [][(Len(calls') = Len(calls) + 1) =>
            /\ calls'[Len(calls)].i = calls[Len(calls)].i + 1
            /\ calls'[Len(calls')].startIdx = calls[Len(calls)].i + 1]_vars
    /\ [][(calls' # <<>> /\ Len(calls') = Len(calls) - 1) =>
            calls'[Len(calls')].i >= calls[Len(calls')].i]_vars

\* a full-length document with nested sections has been parsed
C25_Witness ==
    /\ TreeDone
    /\ Len(elements) = 5
    /\ Len(roots) >= 2
    /\ \E id \in NodeIds : nodes[id].level = 3
    /\ DocumentTexts # <<>>

\* ------------------------------------------------------ splitting a section
\* the chunks flushed so far by the split in progress
Flushed == SelectSeq(chunks, LAMBDA c : c.origin = Top.section)

\* C24: while an over-MAX section is split, the buffer is flushed as one chunk
\* exactly when it is non-empty and the next paragraph would push the token
\* sum over TARGET, and the new buffer is that paragraph; a flushed chunk has
\* token_count <= TARGET or is a single paragraph; the paragraphs of the
\* flushed chunks, of the buffer and of the rest are those of the section, in
\* order
C24_FlushWhenOverTarget ==
    /\ [][(pc = "split" /\ paragraphs # <<>> /\ chunks' # chunks) =>
            /\ buffer # EmptyStr
            /\ bufferTokens + estimateTokens(Head(paragraphs)) > TARGET_CHUNK_TOKENS
            /\ chunks' = Append(chunks, chunks'[Len(chunks')])
            /\ chunks'[Len(chunks')].content = trim(buffer)
            /\ chunks'[Len(chunks')].token_count = bufferTokens
            /\ \/ bufferTokens <= TARGET_CHUNK_TOKENS
               \/ Len(splitParagraphs(buffer)) = 1
            /\ buffer' = Head(paragraphs)
            /\ bufferTokens' = estimateTokens(Head(paragraphs))]_vars
    /\ [][(pc = "split" /\ paragraphs # <<>> /\ paragraphs' # paragraphs
             /\ chunks' = chunks) =>
            ~(buffer # EmptyStr
              /\ bufferTokens + estimateTokens(Head(paragraphs)) > TARGET_CHUNK_TOKENS)]_vars
    /\ [](pc = "split" =>
            ChunkParagraphs(Flushed) \o ParagraphsOf(buffer) \o NonBlank(paragraphs)
                = ParagraphsOf(Trimmed(Top.section)))

\* a buffer of two paragraphs (550 tokens) and a single paragraph over TARGET
\* (1001 tokens) have been flushed by the split in progress
C24_Witness ==
    /\ pc = "split"
    /\ Len(Flushed) >= 2
    /\ Flushed[1].token_count = 550
    /\ Len(splitParagraphs(Flushed[1].content)) = 2
    /\ Flushed[2].token_count = 1001
    /\ Len(chunks) > Len(Flushed)

\* ======================================================================
\* The service: operations on the store that overlap at their await points.
\* A request is one started operation; between two awaits its code runs
\* without interruption, so there is one action per await.
\* ======================================================================
\* embeddings.ts: const BATCH_SIZE
BATCH_SIZE == 100
\* vectordb.ts, upsertChunks: const batchSize
batchSize == 50
\* embeddings.ts: t.substring(0, 8000)
MAX_TEXT_CHARS == 8000

\* bounds of the service specifications
MaxRuns == 3
MaxTexts == 120

Min(a, b) == IF a < b THEN a ELSE b

\* the chunk sectionsToChunks emits at position k of a page: heading "A", a
\* content of n letters (unique id and doc_id are filled in by ScrapedChunks)
PageChunk(letter, k, n) ==
    [id           |-> <<>>,
     doc_id       |-> 0,
     section_path |-> <<"A">>,
     heading      |-> "A",
     content      |-> <<Run(letter, n)>>,
     token_count  |-> estimateTokens(<<Run(letter, n)>>),
     chunk_index  |-> k - 1,
     embedding    |-> <<>>]

\* a page that yields n chunks with contents of 1, 2, .. n letters
PageOf(letter, n) == [k \in 1..n |-> PageChunk(letter, k, k)]

\* chunks of page i (0-based) as sectionsToChunks(sections, docId, ..) returns
\* them to request r: id: uuidv4() is unique per request, page and chunk
ScrapedChunks(r, i, page) ==
    [k \in DOMAIN page |-> [page[k] EXCEPT !.id = <<r, i, k>>, !.doc_id = DocId(i)]]

\* a request of the given kind before its first await
Request(kind) ==
    [kind        |-> kind,
     pc          |-> "new",
     pages       |-> <<>>,    \* scrapeDocs: scrapedPages
     i           |-> 0,       \* scrapeDocs: let i
     chunks      |-> <<>>,    \* scrapeDocs: const chunks of page i
     embeddings  |-> <<>>,    \* generateEmbeddings: const embeddings
     b           |-> 0,       \* let i of the batch loop in progress
     sent        |-> <<>>,    \* ghost: the batches sent so far, as index ranges
     totalChunks |-> 0,       \* scrapeDocs: let totalChunks
     docId       |-> 0,       \* deleteDoc / get_chunks: the document
     limit       |-> 0,       \* get_chunks: limit
     offset      |-> 0,       \* get_chunks: offset
     total       |-> 0,       \* getChunks: count
     reply       |-> <<>>,    \* get_chunks: the replies so far
     thrownAt    |-> "" ]     \* ghost: the await that threw

Finished(q) == q.pc \in {"done", "failed"}

\* no operation is in progress
Quiet == \A r \in DOMAIN requests : Finished(requests[r])

\* const texts = chunks.map((c) => `${c.heading}\n\n${c.content}`)
HeadingText(h) == [k \in DOMAIN Chars(h) |-> Run(Chars(h)[k], 1)]
textOf(c) == Concat(Concat(HeadingText(c.heading), BlankLine), c.content)
textsOf(cs) == [k \in DOMAIN cs |-> textOf(cs[k])]

\* the embedding the API computes for an input text
embeddingOf(text) == <<"embedding", text>>

\* the orders in which response.data can list the inputs of a batch of n
ResponseOrders == {"input", "reversed", "rotated"}
ResponsePosition(order, n, k) ==
    CASE order = "input"    -> k
      [] order = "reversed" -> n + 1 - k
      [] order = "rotated"  -> (k % n) + 1

\* response.data of openai.embeddings.create({ input }): one entry per input,
\* with the (0-based) index of the input it belongs to
responseData(order, input) ==
    [k \in DOMAIN input |->
        LET j == ResponsePosition(order, Len(input), k)
        IN  [index |-> j - 1, embedding |-> embeddingOf(input[j])]]

\* mutant of sortedEmbeddings: response.data is used in the order received
unsortedEmbeddings(data) == [k \in DOMAIN data |-> data[k].embedding]

\* response.data.sort((a, b) => a.index - b.index).map((d) => d.embedding)
sortedEmbeddings(data) ==
    [k \in DOMAIN data |->
        (CHOOSE d \in Range(data) : d.index = k - 1).embedding]

\* the row of table doc_chunks upsertChunks writes for a chunk
StoredChunk(c) ==
    [id          |-> c.id,
     doc_id      |-> c.doc_id,
     heading     |-> c.heading,
     content     |-> c.content,
     token_count |-> c.token_count,
     chunk_index |-> c.chunk_index,
     embedding   |-> c.embedding]

\* chunks[j].embedding = embeddings[j] for j < chunks.length
attach(cs, embeddings) ==
    [j \in DOMAIN cs |->
        [cs[j] EXCEPT !.embedding =
            IF j <= Len(embeddings) THEN embeddings[j] ELSE <<>>]]

\* the first page at or after index i that yields chunks (chunks.length === 0:
\* continue), or scrapedPages.length
RECURSIVE nextPageWithChunks(_, _)
nextPageWithChunks(ps, i) ==
    IF i >= Len(ps) THEN Len(ps)
    ELSE IF Len(ps[i + 1]) = 0 THEN nextPageWithChunks(ps, i + 1)
    ELSE i

\* the loop of scrapeDocs runs from index i up to its next await: the first
\* request of generateEmbeddings, or the return after the last page
loopFrom(q, r, i) ==
    LET j == nextPageWithChunks(q.pages, i)
    IN  IF j >= Len(q.pages)
        THEN [q EXCEPT !.i = j, !.chunks = <<>>, !.embeddings = <<>>, !.b = 0,
                       !.sent = <<>>, !.pc = "done"]
        ELSE [q EXCEPT !.i = j, !.chunks = ScrapedChunks(r, j, q.pages[j + 1]),
                       !.embeddings = <<>>, !.b = 0, !.sent = <<>>, !.pc = "embed"]

\* await crawler.run(startUrls): the crawl fetched the first n pages of the site
ServiceCrawl(r) ==
    /\ requests[r].pc = "crawl"
    /\ \E n \in 0..Len(site) :
          requests' = [requests EXCEPT ![r] =
              loopFrom([@ EXCEPT !.pages = SubSeq(site, 1, n)], r, 0)]
    /\ UNCHANGED <<treeVars, forestVars, chunkVars, forceRefresh, site, step, pages,
                   pageIndex, metadata, docMetadata, docChunks, returned, logged>>

\* await openai.embeddings.create for the batch texts.slice(i, i + BATCH_SIZE),
\* truncated: the sorted embeddings are pushed; then the delay before the next
\* batch, or generateEmbeddings returns, the embeddings are attached and
\* upsertDocMetadata is called
ServiceEmbed(r) ==
    /\ requests[r].pc = "embed"
    /\ LET q     == requests[r]
           texts == textsOf(q.chunks)
           last  == Min(q.b + BATCH_SIZE, Len(texts))
           batch == SubSeq(texts, q.b + 1, last)
           truncatedBatch == [k \in DOMAIN batch |-> substring(batch[k], MAX_TEXT_CHARS)]
       IN  \E order \in ResponseOrders :
              LET all == q.embeddings \o sortedEmbeddings(responseData(order, truncatedBatch))
                  ghost == Append(q.sent, <<q.b + 1, last>>)
              IN  requests' = [requests EXCEPT ![r] =
                      IF q.b + BATCH_SIZE < Len(texts)
                      THEN [q EXCEPT !.embeddings = all, !.sent = ghost, !.pc = "delay"]
                      ELSE [q EXCEPT !.embeddings = all, !.sent = ghost,
                                     !.chunks = attach(q.chunks, all), !.b = 0,
                                     !.pc = "upsertDocMetadata"]]
    /\ UNCHANGED <<treeVars, forestVars, chunkVars, forceRefresh, site, step, pages,
                   pageIndex, metadata, docMetadata, docChunks, returned, logged>>

\* await new Promise((resolve) => setTimeout(resolve, 100)); i += BATCH_SIZE
ServiceDelay(r) ==
    /\ requests[r].pc = "delay"
    /\ requests' = [requests EXCEPT ![r] = [@ EXCEPT !.b = @ + BATCH_SIZE, !.pc = "embed"]]
    /\ UNCHANGED <<treeVars, forestVars, chunkVars, forceRefresh, site, step, pages,
                   pageIndex, metadata, docMetadata, docChunks, returned, logged>>

\* the row of table doc_metadata for the object literal const metadata (title,
\* url, summary, sections and type are left out)
StoredMetadata(docId, cs) == [id |-> docId, total_chunks |-> Len(cs)]

\* await vectorDb.upsertDocMetadata(metadata): the row with the same id is replaced
ServiceUpsertDocMetadata(r) ==
    /\ requests[r].pc = "upsertDocMetadata"
    /\ LET q  == requests[r]
           md == StoredMetadata(DocId(q.i), q.chunks)
       IN  /\ docMetadata' = { m \in docMetadata : m.id # md.id } \cup {md}
           /\ requests' = [requests EXCEPT ![r] = [q EXCEPT !.b = 0, !.sent = <<>>,
                                                            !.pc = "upsertChunks"]]
    /\ UNCHANGED <<treeVars, forestVars, chunkVars, forceRefresh, site, step, pages,
                   pageIndex, metadata, docChunks, returned, logged>>

\* doc_chunks.doc_id references doc_metadata(id): the rows can be written
References(rows) == \A k \in DOMAIN rows : \E m \in docMetadata : m.id = rows[k].doc_id

\* mutant of ServiceUpsertChunks: the loop steps over one chunk more than it sent
ServiceUpsertChunksSkipping(r) ==
    /\ requests[r].pc = "upsertChunks"
    /\ LET q     == requests[r]
           last  == Min(q.b + batchSize, Len(q.chunks))
           batch == SubSeq(q.chunks, q.b + 1, last)
           rows  == [k \in DOMAIN batch |-> StoredChunk(batch[k])]
           ids   == { rows[k].id : k \in DOMAIN rows }
       IN  /\ References(rows)
           /\ docChunks' = SelectSeq(docChunks, LAMBDA row : row.id \notin ids) \o rows
           /\ requests' = [requests EXCEPT ![r] =
                  IF q.b + batchSize + 1 < Len(q.chunks)
                  THEN [q EXCEPT !.b = @ + batchSize + 1,
                                 !.sent = Append(@, <<q.b + 1, last>>)]
                  ELSE loopFrom([q EXCEPT !.totalChunks = @ + Len(q.chunks)], r, q.i + 1)]
    /\ UNCHANGED <<treeVars, forestVars, chunkVars, forceRefresh, site, step, pages,
                   pageIndex, metadata, docMetadata, returned, logged>>

\* await doc_chunks.upsert of the batch chunks.slice(i, i + batchSize): rows with
\* the same id are replaced; then the next batch, or upsertChunks returns and
\* the loop of scrapeDocs goes on
ServiceUpsertChunks(r) ==
    /\ requests[r].pc = "upsertChunks"
    /\ LET q     == requests[r]
           last  == Min(q.b + batchSize, Len(q.chunks))
           batch == SubSeq(q.chunks, q.b + 1, last)
           rows  == [k \in DOMAIN batch |-> StoredChunk(batch[k])]
           ids   == { rows[k].id : k \in DOMAIN rows }
       IN  /\ References(rows)
           /\ docChunks' = SelectSeq(docChunks, LAMBDA row : row.id \notin ids) \o rows
           /\ requests' = [requests EXCEPT ![r] =
                  IF q.b + batchSize < Len(q.chunks)
                  THEN [q EXCEPT !.b = @ + batchSize, !.sent = Append(@, <<q.b + 1, last>>)]
                  ELSE loopFrom([q EXCEPT !.totalChunks = @ + Len(q.chunks)], r, q.i + 1)]
    /\ UNCHANGED <<treeVars, forestVars, chunkVars, forceRefresh, site, step, pages,
                   pageIndex, metadata, docMetadata, returned, logged>>

\* the upsert of a batch is rejected by the foreign key: if (error) throw error
ServiceUpsertRejected(r) ==
    /\ requests[r].pc = "upsertChunks"
    /\ LET q     == requests[r]
           batch == SubSeq(q.chunks, q.b + 1, Min(q.b + batchSize, Len(q.chunks)))
       IN  ~References([k \in DOMAIN batch |-> StoredChunk(batch[k])])
    /\ requests' = [requests EXCEPT ![r] = [@ EXCEPT !.pc = "failed",
                                                     !.thrownAt = "foreign key"]]
    /\ UNCHANGED <<treeVars, forestVars, chunkVars, forceRefresh, site, step, pages,
                   pageIndex, metadata, docMetadata, docChunks, returned, logged>>

\* the awaits of a request that can reject
Awaits == {"getInput", "clearChunks", "clearMetadata", "deleteChunks", "deleteMetadata",
           "crawl", "embed", "upsertDocMetadata", "upsertChunks", "count", "select"}

\* an await rejects (network, API or database error): the operation throws; the
\* handler of /refresh-docs answers 500
ServiceThrows(r) ==
    /\ requests[r].pc \in Awaits
    /\ requests' = [requests EXCEPT ![r] = [@ EXCEPT !.pc = "failed",
                                                     !.thrownAt = requests[r].pc]]
    /\ UNCHANGED <<treeVars, forestVars, chunkVars, forceRefresh, site, step, pages,
                   pageIndex, metadata, docMetadata, docChunks, returned, logged>>

\* ------------------------------------------- one scrape with batched requests
\* a page with two chunks whose texts are longer than MAX_TEXT_CHARS
LongPage ==
    <<PageChunk("a", 1, MAX_TEXT_CHARS + 1), PageChunk("a", 2, MAX_TEXT_CHARS + 2)>>

\* the sites of the batch specification: one page of 1, 49, 50, 51, 99, 100, 101 or
\* MaxTexts chunks, the long page, and a site of three pages
BatchSites ==
    { <<PageOf("a", n)>> : n \in {1, batchSize - 1, batchSize, batchSize + 1,
                                 BATCH_SIZE - 1, BATCH_SIZE, BATCH_SIZE + 1, MaxTexts} }
    \cup { <<LongPage>>, <<PageOf("a", 2), <<>>, PageOf("b", batchSize + 1)>> }

\* everything but the store and the service is at rest
ServiceOnly ==
    /\ elements = <<>>
    /\ calls = <<>>
    /\ nodes = <<>>
    /\ roots = <<>>
    /\ ChunkerIdle
    /\ forceRefresh = FALSE
    /\ step = "off"
    /\ pages = <<>>
    /\ pageIndex = 0
    /\ metadata = NoMetadata
    /\ returned = -1
    /\ logged = <<>>

\* scrapeDocs is called on an empty store and waits for crawler.run
InitBatch ==
    /\ ServiceOnly
    /\ docMetadata = {}
    /\ docChunks = <<>>
    /\ site \in BatchSites
    /\ requests = <<[Request("scrapeDocs") EXCEPT !.pc = "crawl"]>>

NextBatch ==
    \/ \E r \in DOMAIN requests : ServiceCrawl(r)
    \/ \E r \in DOMAIN requests : ServiceEmbed(r)
    \/ \E r \in DOMAIN requests : ServiceDelay(r)
    \/ \E r \in DOMAIN requests : ServiceUpsertDocMetadata(r)
    \/ \E r \in DOMAIN requests : ServiceUpsertChunks(r)
    \/ \E r \in DOMAIN requests : ServiceThrows(r)

SpecBatch == InitBatch /\ [][NextBatch]_vars

\* the index ranges <<first, last>> start at 1, follow one another without a
\* gap or an overlap, and hold size entries each, the last one at most size
ConsecutiveBatches(sent, size) ==
    \A k \in DOMAIN sent :
        /\ sent[k][1] = (k - 1) * size + 1
        /\ sent[k][1] <= sent[k][2]
        /\ sent[k][2] <= k * size
        /\ k < Len(sent) => sent[k][2] = k * size

\* the texts covered by the batches sent so far
Covered(sent) == IF sent = <<>> THEN 0 ELSE sent[Len(sent)][2]

\* generateEmbeddings sends consecutive batches of at most BATCH_SIZE texts in
\* input order and holds one embedding per text sent; when it has returned,
\* every text has been sent
BatchesOfEmbeddings ==
    \A r \in DOMAIN requests :
        LET q == requests[r]
        IN  /\ q.pc \in {"embed", "delay", "upsertDocMetadata"} =>
                /\ ConsecutiveBatches(q.sent, BATCH_SIZE)
                /\ Len(q.embeddings) = Covered(q.sent)
                /\ q.pc = "embed" => q.b = Covered(q.sent)
            /\ q.pc = "upsertDocMetadata" => Len(q.embeddings) = Len(q.chunks)

\* C28 as stated: consecutive batches of at most 100 texts in input order;
\* when every request succeeded, result[k] is the embedding of texts[k]; every
\* stored chunk carries the embedding of its heading + blank line + content
C28_EmbeddingOfOwnText ==
    /\ BatchesOfEmbeddings
    /\ \A r \in DOMAIN requests :
          requests[r].pc = "upsertDocMetadata" =>
              \A k \in DOMAIN requests[r].chunks :
                  requests[r].embeddings[k] = embeddingOf(textOf(requests[r].chunks[k]))
    /\ \A k \in DOMAIN docChunks :
          docChunks[k].embedding = embeddingOf(textOf(docChunks[k]))

\* C28, amended: the same with the embedding of the first 8000 characters of
\* the text: result[k] is the embedding of texts[k].substring(0, 8000), and
\* every stored chunk carries the embedding of the first 8000 characters of
\* its heading + blank line + content
C28_EmbeddingOfTruncatedText ==
    /\ BatchesOfEmbeddings
    /\ \A r \in DOMAIN requests :
          requests[r].pc = "upsertDocMetadata" =>
              \A k \in DOMAIN requests[r].chunks :
                  requests[r].embeddings[k] =
                      embeddingOf(substring(textOf(requests[r].chunks[k]), MAX_TEXT_CHARS))
    /\ \A k \in DOMAIN docChunks :
          docChunks[k].embedding =
              embeddingOf(substring(textOf(docChunks[k]), MAX_TEXT_CHARS))

\* generateEmbeddings has returned after two requests, of 100 texts and of
\* the rest, and the chunks are stored with their embeddings
C28_Witness ==
    /\ Len(docChunks) > BATCH_SIZE
    /\ \E r \in DOMAIN requests :
          /\ requests[r].pc = "done"
          /\ requests[r].totalChunks = Len(docChunks)
    /\ \A k \in DOMAIN docChunks : docChunks[k].embedding # <<>>

\* -------------------------------------------------------- batches of chunks
\* the rows the first n chunks of the page in progress are stored as
RowsOfChunks(q, n) == [k \in 1..n |-> StoredChunk(q.chunks[k])]

\* C29: upsertChunks sends the chunks in consecutive batches of at most 50,
\* every chunk in exactly one batch: while it runs, and after a batch has
\* failed, the stored rows of the document are exactly the chunks of the
\* batches before the one in progress (or failed), the metadata row is stored
\* with total_chunks = the full count, and a failing batch throws at once
\* without touching the store; a page that upsertChunks returned from has
\* every chunk stored once
C29_BatchesOfChunks ==
    /\ [](\A r \in DOMAIN requests :
            LET q == requests[r]
            IN  /\ (q.pc = "upsertChunks"
                    \/ (q.pc = "failed" /\ q.thrownAt = "upsertChunks")) =>
                       /\ ConsecutiveBatches(q.sent, batchSize)
                       /\ q.b = Covered(q.sent)
                       /\ q.b < Len(q.chunks)
                       /\ RowsOf(DocId(q.i)) = RowsOfChunks(q, q.b)
                       /\ MetadataOf(DocId(q.i)) = {StoredMetadata(DocId(q.i), q.chunks)}
                /\ \A j \in 0..(q.i - 1) :
                       (j < Len(q.pages) /\ q.pages[j + 1] # <<>>) =>
                           /\ Len(RowsOf(DocId(j))) = Len(q.pages[j + 1])
                           /\ \A k \in DOMAIN q.pages[j + 1] :
                                 RowsOf(DocId(j))[k].id = <<r, j, k>>)
    /\ [][\A r \in DOMAIN requests :
            (requests[r].pc = "upsertChunks" /\ requests'[r].pc = "failed") =>
                /\ docChunks' = docChunks
                /\ docMetadata' = docMetadata
                /\ requests'[r].b = requests[r].b]_vars

\* the third batch of a page of MaxTexts chunks failed: 100 rows are stored
\* and the metadata row announces all the chunks
C29_Witness ==
    \E r \in DOMAIN requests :
        /\ requests[r].pc = "failed"
        /\ requests[r].thrownAt = "upsertChunks"
        /\ requests[r].b = 2 * batchSize
        /\ Len(docChunks) = 2 * batchSize
        /\ \E m \in docMetadata : m.total_chunks = MaxTexts

\* ------------------------------------------------- clearAll and deleteDoc
\* doc_chunks.doc_id references doc_metadata(id) on delete cascade: the rows
\* left when the metadata rows md are the ones that remain
cascade(rows, md) ==
    SelectSeq(rows, LAMBDA row : \E m \in md : m.id = row.doc_id)

\* mutant of ServiceClearChunks: the chunks are not deleted
ServiceClearChunksSkipped(r) ==
    /\ requests[r].pc = "clearChunks"
    /\ requests' = [requests EXCEPT ![r] = [@ EXCEPT !.pc = "clearMetadata"]]
    /\ UNCHANGED <<treeVars, forestVars, chunkVars, forceRefresh, site, step, pages,
                   pageIndex, metadata, docMetadata, docChunks, returned, logged>>

\* clearAll: await doc_chunks.delete().neq('id', ...): every row is deleted
ServiceClearChunks(r) ==
    /\ requests[r].pc = "clearChunks"
    /\ docChunks' = <<>>
    /\ requests' = [requests EXCEPT ![r] = [@ EXCEPT !.pc = "clearMetadata"]]
    /\ UNCHANGED <<treeVars, forestVars, chunkVars, forceRefresh, site, step, pages,
                   pageIndex, metadata, docMetadata, returned, logged>>

\* clearAll: await doc_metadata.delete().neq('id', ''): every row is deleted;
\* clearAll returns, and the handler of /refresh-docs calls scrapeDocs
ServiceClearMetadata(r) ==
    /\ requests[r].pc = "clearMetadata"
    /\ docMetadata' = {}
    /\ docChunks' = cascade(docChunks, {})
    /\ requests' = [requests EXCEPT ![r] =
           [@ EXCEPT !.pc = IF requests[r].kind = "refresh" THEN "crawl" ELSE "done"]]
    /\ UNCHANGED <<treeVars, forestVars, chunkVars, forceRefresh, site, step, pages,
                   pageIndex, metadata, returned, logged>>

\* deleteDoc: await doc_chunks.delete().eq('doc_id', docId)
ServiceDeleteChunks(r) ==
    /\ requests[r].pc = "deleteChunks"
    /\ docChunks' = SelectSeq(docChunks, LAMBDA row : row.doc_id # requests[r].docId)
    /\ requests' = [requests EXCEPT ![r] = [@ EXCEPT !.pc = "deleteMetadata"]]
    /\ UNCHANGED <<treeVars, forestVars, chunkVars, forceRefresh, site, step, pages,
                   pageIndex, metadata, docMetadata, returned, logged>>

\* deleteDoc: await doc_metadata.delete().eq('id', docId)
ServiceDeleteMetadata(r) ==
    /\ requests[r].pc = "deleteMetadata"
    /\ LET md == { m \in docMetadata : m.id # requests[r].docId }
       IN  /\ docMetadata' = md
           /\ docChunks' = cascade(docChunks, md)
    /\ requests' = [requests EXCEPT ![r] = [@ EXCEPT !.pc = "done"]]
    /\ UNCHANGED <<treeVars, forestVars, chunkVars, forceRefresh, site, step, pages,
                   pageIndex, metadata, returned, logged>>

\* an operation is started: its code runs up to its first await
Start(request) ==
    /\ Len(requests) < MaxRuns
    /\ requests' = Append(requests, request)
    /\ UNCHANGED <<treeVars, forestVars, chunkVars, forceRefresh, site, step, pages,
                   pageIndex, metadata, docMetadata, docChunks, returned, logged>>

\* scrapeDocs(), clearAll() and deleteDoc(docId) are called one after another
StartScrapeDocs == Quiet /\ Start([Request("scrapeDocs") EXCEPT !.pc = "crawl"])
StartClearAll == Quiet /\ Start([Request("clearAll") EXCEPT !.pc = "clearChunks"])
StartDeleteDoc ==
    /\ Quiet
    /\ \E i \in 0..(Len(site) - 1) :
          Start([Request("deleteDoc") EXCEPT !.pc = "deleteChunks", !.docId = DocId(i)])

\* the site of the sequential and the concurrent specification: a page of two
\* chunks, a page without chunks and a page of one chunk
SmallSite == <<PageOf("a", 2), <<>>, PageOf("b", 1)>>

InitSeq ==
    /\ ServiceOnly
    /\ docMetadata = {}
    /\ docChunks = <<>>
    /\ site = SmallSite
    /\ requests = <<>>

NextSeq ==
    \/ StartScrapeDocs
    \/ StartClearAll
    \/ StartDeleteDoc
    \/ \E r \in DOMAIN requests : ServiceCrawl(r)
    \/ \E r \in DOMAIN requests : ServiceEmbed(r)
    \/ \E r \in DOMAIN requests : ServiceUpsertDocMetadata(r)
    \/ \E r \in DOMAIN requests : ServiceUpsertChunks(r)
    \/ \E r \in DOMAIN requests : ServiceClearChunks(r)
    \/ \E r \in DOMAIN requests : ServiceClearMetadata(r)
    \/ \E r \in DOMAIN requests : ServiceDeleteChunks(r)
    \/ \E r \in DOMAIN requests : ServiceDeleteMetadata(r)
    \/ \E r \in DOMAIN requests : ServiceThrows(r)

SpecSeq == InitSeq /\ [][NextSeq]_vars

\* the batch a request is about to upsert
PendingRows(q) ==
    LET batch == SubSeq(q.chunks, q.b + 1, Min(q.b + batchSize, Len(q.chunks)))
    IN  [k \in DOMAIN batch |-> StoredChunk(batch[k])]

\* C27: in every state reached by sequential runs of scrapeDocs, deleteDoc
\* and clearAll, aborted runs included, every stored chunk's doc_id has a
\* doc_metadata row; this is the order of the code at work, not a rejection by
\* the database: a chunk is only written when its metadata row is there, and a
\* metadata row is only deleted when its chunks are gone
C27_ChunksHaveMetadata ==
    /\ [](\A k \in DOMAIN docChunks : MetadataOf(docChunks[k].doc_id) # {})
    /\ [](\A r \in DOMAIN requests :
            requests[r].pc = "upsertChunks" => References(PendingRows(requests[r])))
    /\ [][\A m \in docMetadata :
            MetadataOf(m.id)' = {} => RowsOf(m.id) = <<>>]_vars

\* after a scrape that a storage error aborted and a deleteDoc that failed
\* between its two deletes, metadata rows without chunks are left
C27_Witness ==
    /\ Quiet
    /\ \E r \in DOMAIN requests :
          /\ requests[r].kind = "scrapeDocs"
          /\ requests[r].thrownAt = "upsertChunks"
    /\ \E r \in DOMAIN requests :
          /\ requests[r].kind = "deleteDoc"
          /\ requests[r].thrownAt = "deleteMetadata"
    /\ \E m \in docMetadata : RowsOf(m.id) = <<>>
    /\ docChunks # <<>>

\* ------------------------------------------------ /refresh-docs, get_chunks
\* bounds of the concurrent specification
MaxRefreshes == 2
MaxLimit == 2

RequestsOf(kind) == { r \in DOMAIN requests : requests[r].kind = kind }

\* POST /refresh-docs arrives: the handler runs up to await Actor.getInput();
\* nothing keeps a second request from arriving while the first is served
StartRefresh ==
    /\ Cardinality(RequestsOf("refresh")) < MaxRefreshes
    /\ RequestsOf("get_chunks") = {}
    /\ Start([Request("refresh") EXCEPT !.pc = "getInput"])

\* await Actor.getInput() resolves: vectorDb.clearAll() is called
ServiceGetInput(r) ==
    /\ requests[r].pc = "getInput"
    /\ requests' = [requests EXCEPT ![r] = [@ EXCEPT !.pc = "clearChunks"]]
    /\ UNCHANGED <<treeVars, forestVars, chunkVars, forceRefresh, site, step, pages,
                   pageIndex, metadata, docMetadata, docChunks, returned, logged>>

\* a client calls get_chunks(doc_id, limit, offset) on the store at rest:
\* vectorDb.getChunks awaits the count query
StartGetChunks ==
    /\ Quiet
    /\ RequestsOf("refresh") # {}
    /\ RequestsOf("get_chunks") = {}
    /\ \E m \in docMetadata : \E l \in 1..MaxLimit : \E o \in 0..(MaxLimit + 1) :
          Start([Request("get_chunks") EXCEPT !.pc = "count", !.docId = m.id,
                                              !.limit = l, !.offset = o])

\* getChunks: select('*', { count: 'exact', head: true }).eq('doc_id', docId)
ServiceCount(r) ==
    /\ requests[r].pc = "count"
    /\ requests' = [requests EXCEPT ![r] =
           [@ EXCEPT !.total = Len(RowsOf(requests[r].docId)), !.pc = "select"]]
    /\ UNCHANGED <<treeVars, forestVars, chunkVars, forceRefresh, site, step, pages,
                   pageIndex, metadata, docMetadata, docChunks, returned, logged>>

\* .order('chunk_index', { ascending: true }): the orders the database can list
\* the rows in; rows with the same chunk_index come in any order
Ordered(rows) ==
    { p \in [DOMAIN rows -> DOMAIN rows] :
        /\ \A j, k \in DOMAIN rows : j # k => p[j] # p[k]
        /\ \A k \in 1..(Len(rows) - 1) :
              rows[p[k]].chunk_index <= rows[p[k + 1]].chunk_index }

\* if (limit) query.limit(limit); if (offset) query.range(offset, offset +
\* (limit || 10) - 1): the first and the last position (from 1) of the page
pageFirst(limit, offset) == IF offset # 0 THEN offset + 1 ELSE 1
pageLast(limit, offset, n) ==
    IF offset # 0 THEN Min(offset + (IF limit # 0 THEN limit ELSE 10), n)
    ELSE IF limit # 0 THEN Min(limit, n)
    ELSE n

\* the JSON text get_chunks answers with, for the chunks and the total
\* getChunks returned
getChunksReply(q, cs) ==
    IF Len(cs) = 0
    THEN [error |-> TRUE, offset |-> q.offset, total_chunks |-> 0, returned |-> 0,
          has_more |-> FALSE, chunks |-> <<>>]
    ELSE [error |-> FALSE, offset |-> q.offset, total_chunks |-> q.total,
          returned |-> Len(cs), has_more |-> q.offset + Len(cs) < q.total,
          chunks |-> [k \in DOMAIN cs |->
                         [id |-> cs[k].id, chunk_index |-> cs[k].chunk_index]]]

\* getChunks: the select query resolves and get_chunks answers; while has_more
\* is true the client asks for the next page, at offset + limit
ServiceSelect(r) ==
    /\ requests[r].pc = "select"
    /\ LET q    == requests[r]
           rows == RowsOf(q.docId)
       IN  \E p \in Ordered(rows) :
              LET first == pageFirst(q.limit, q.offset)
                  last  == pageLast(q.limit, q.offset, Len(rows))
                  cs    == [k \in 1..(IF last >= first THEN last - first + 1 ELSE 0) |->
                               rows[p[first + k - 1]]]
                  reply == getChunksReply(q, cs)
              IN  requests' = [requests EXCEPT ![r] =
                      IF reply.has_more
                      THEN [q EXCEPT !.reply = Append(@, reply),
                                     !.offset = @ + q.limit, !.pc = "count"]
                      ELSE [q EXCEPT !.reply = Append(@, reply), !.pc = "done"]]
    /\ UNCHANGED <<treeVars, forestVars, chunkVars, forceRefresh, site, step, pages,
                   pageIndex, metadata, docMetadata, docChunks, returned, logged>>

\* the store an earlier, complete scrape of the site left
EarlierChunks(i) ==
    LET cs == ScrapedChunks(0, i, SmallSite[i + 1])
    IN  [k \in DOMAIN cs |-> StoredChunk(cs[k])]

InitRefresh ==
    /\ ServiceOnly
    /\ site = SmallSite
    /\ docMetadata = { StoredMetadata(DocId(i), SmallSite[i + 1]) : i \in {0, 2} }
    /\ docChunks = EarlierChunks(0) \o EarlierChunks(2)
    /\ requests = <<>>

NextRefresh ==
    \/ StartRefresh
    \/ StartGetChunks
    \/ \E r \in DOMAIN requests : ServiceGetInput(r)
    \/ \E r \in DOMAIN requests : ServiceClearChunks(r)
    \/ \E r \in DOMAIN requests : ServiceClearMetadata(r)
    \/ \E r \in DOMAIN requests : ServiceCrawl(r)
    \/ \E r \in DOMAIN requests : ServiceEmbed(r)
    \/ \E r \in DOMAIN requests : ServiceUpsertDocMetadata(r)
    \/ \E r \in DOMAIN requests : ServiceUpsertChunks(r)
    \/ \E r \in DOMAIN requests : ServiceUpsertRejected(r)
    \/ \E r \in DOMAIN requests : ServiceCount(r)
    \/ \E r \in DOMAIN requests : ServiceSelect(r)
    \/ \E r \in DOMAIN requests : ServiceThrows(r)

SpecRefresh == InitRefresh /\ [][NextRefresh]_vars

\* every POST /refresh-docs that arrived has been answered with success
RefreshesCompleted ==
    /\ RequestsOf("refresh") # {}
    /\ \A r \in RequestsOf("refresh") : requests[r].pc = "done"

\* C21: after the POST /refresh-docs requests have completed, overlapping ones
\* included, the store holds exactly one freshly scraped copy: every stored
\* document has as many chunk rows as its total_chunks says, and all the rows
\* come from the scrape of one of the requests
C21_OneFreshCopy ==
    RefreshesCompleted =>
        /\ \A m \in docMetadata : Len(RowsOf(m.id)) = m.total_chunks
        /\ \E r \in RequestsOf("refresh") :
              \A k \in DOMAIN docChunks : docChunks[k].id[1] = r

\* the places <<reply, position>> at which a walk was handed the row with the id
Handed(q, id) ==
    { pl \in (DOMAIN q.reply) \X (1..MaxLimit) :
        /\ pl[2] <= Len(q.reply[pl[1]].chunks)
        /\ q.reply[pl[1]].chunks[pl[2]].id = id }

\* C30: for a limit L > 0 and an offset O >= 0 get_chunks returns the chunks
\* at positions O..min(O + L, total) - 1 in ascending chunk_index order,
\* has_more is true exactly when chunks remain after the page, and a walk over
\* the offsets 0, L, 2L, .. is handed every chunk of the document exactly once
C30_PaginatedAccess ==
    \A r \in RequestsOf("get_chunks") :
        LET q    == requests[r]
            rows == RowsOf(q.docId)
        IN  /\ \A k \in DOMAIN q.reply :
                  LET rp == q.reply[k]
                  IN  /\ rp.returned =
                             (IF rp.offset < Len(rows)
                              THEN Min(rp.offset + q.limit, Len(rows)) - rp.offset
                              ELSE 0)
                      /\ \A j \in 1..(Len(rp.chunks) - 1) :
                             rp.chunks[j].chunk_index <= rp.chunks[j + 1].chunk_index
                      /\ rp.has_more <=> (rp.offset + rp.returned < Len(rows))
            /\ (q.pc = "done" /\ q.reply[1].offset = 0) =>
                  \A k \in DOMAIN rows : Cardinality(Handed(q, rows[k].id)) = 1

\* the rows of every document have different chunk_index values
DistinctChunkIndex ==
    \A j, k \in DOMAIN docChunks :
        (j # k /\ docChunks[j].doc_id = docChunks[k].doc_id) =>
            docChunks[j].chunk_index # docChunks[k].chunk_index

\* get_chunks on the stores in which no document has two rows with the same
\* chunk_index: the order of the rows is determined and the walk is exact
PaginatedOnDistinctIndexes == DistinctChunkIndex => C30_PaginatedAccess

====
